---------------------------- MODULE Spec2Model ----------------------------
(***************************************************************************)
(* Model of the trace summariser of sentry-mcp-rs                          *)
(* (src/src/tools/get_trace_details.rs): the operation aggregator, the     *)
(* interesting-span selector, the tree renderer and the report composer.   *)
(* The three tools (get_issue_details, get_trace_details and               *)
(* search_issue_events) are modelled as invocations against a backend      *)
(* whose every answer is a result or an error.                             *)
(*                                                                         *)
(* Representation.                                                         *)
(*  - An f64 duration in milliseconds is an integer number of 1/Scale ms   *)
(*    (hundredths), the precision format_duration prints.                  *)
(*  - Option<T> is a sequence of length 0 (None) or 1 (Some(v)).           *)
(*  - A String that the code builds line by line is the sequence of its    *)
(*    lines; every line is a TLA+ string without its final "\n".           *)
(*  - The glyphs the lexer does not accept are transliterated: the check   *)
(*    mark is "v", the ballot cross is "x" and the three-backquote code    *)
(*    fence is "'''".                                                      *)
(*  - An invocation takes one step up to each await: a step holds the      *)
(*    answer of the operation awaited, what the code does with it and the  *)
(*    next request, if any. The log keeps the requests and the answers.    *)
(*  - Invocations in flight on one handle are interleaved at their         *)
(*    awaits: one is polled, the others wait in suspended.                 *)
(***************************************************************************)
EXTENDS Integers, Sequences, FiniteSets, TLC

VARIABLES
    spans,        \* the span forest handed to the operation (Vec<TraceSpan>)
    meta,         \* Option<TraceMeta> handed to format_trace_output
    ms,           \* the argument of format_duration
    arg,          \* the scalar arguments of the call that was made
    pc,           \* "ready" before the call, the operation's name after it
    interesting,  \* the Vec<TraceSpan> returned by select_interesting_spans
    ops,          \* the HashMap filled by collect_operations
    text,         \* the String returned by format_duration
    output,       \* the String built by format_span_tree / format_trace_output
    orphan_errors,\* the orphan_errors of a TraceResponse
    input,        \* Option of the tool invocation's input
    issue,        \* Option<Issue> the invocation got from get_issue
    event,        \* Option<Event> the invocation got from the event fetch
    events,       \* the Vec<Event> the invocation got from the event search
    calls,        \* per backend operation, how many times it was called
    log,          \* the backend requests and responses, in order
    result,       \* Option of the Result the invocation returned
    suspended     \* the invocations in flight that are not being polled

invocation_vars == <<input, issue, event, events, calls, log, result, suspended>>

vars == <<spans, meta, ms, arg, pc, interesting, ops, text, output,
          orphan_errors, invocation_vars>>

--------------------------------------------------------------------------
(* Bounds of the model *)

MaxNodes == 3         \* nodes of a forest handed to the selector
MaxSpansArg == 3      \* largest max_spans argument tried
MaxOffset == 10       \* half-width of the windows of format_duration inputs
MaxStartDepth == 1    \* largest depth format_span_tree is started at
MaxReportNodes == 2   \* nodes of a forest handed to format_trace_output
MaxRangeNodes == 3    \* nodes of a forest with per-node timing data
MaxOrphans == 6       \* orphan errors of a trace response
MaxEvents == 2        \* events of a response to the event search
MaxWideNodes == 22    \* nodes of a wide forest handed to format_trace_output
MaxInvocations == 2   \* invocations in flight at once on one handle

(* Program constants *)

Scale == 100                          \* model units per millisecond
MIN_INTERESTING_DURATION_MS == 10
MAX_INTERESTING_SPANS == 20
DOMINATED_THRESHOLD == <<9, 10>>      \* 0.9 as a fraction
TimeScale == 1000                     \* model units per second of a timestamp
F64_MAX == 1000000                    \* f64::MAX, above every timestamp; f64::MIN is its negation

--------------------------------------------------------------------------
(* Option and sequence helpers *)

None == <<>>
Some(v) == <<v>>
IsSome(o) == Len(o) = 1

\* the operations of the SentryApi trait the tools call
BackendOps ==
    { "get_issue", "get_event", "get_latest_event",
      "get_trace", "get_trace_meta", "list_events_for_issue" }

\* no tool has been invoked
NoInvocation ==
    /\ input = None
    /\ issue = None
    /\ event = None
    /\ events = <<>>
    /\ calls = [ op \in BackendOps |-> 0 ]
    /\ log = <<>>
    /\ result = None
    /\ suspended = <<>>

Min(a, b) == IF a <= b THEN a ELSE b

\* Vec::truncate
truncate(s, n) == SubSeq(s, 1, Min(n, Len(s)))

--------------------------------------------------------------------------
(* TraceSpan values *)

\* A TraceSpan with the fields the summariser reads; the arguments are the
\* fields that vary, the rest are values of the repository's fixtures.
\* event_id is a number here, given by BuildForest.
Span(op, duration, is_transaction, errors) ==
    [ event_id        |-> 0,
      op              |-> op,
      description     |-> Some("GET /api/test"),
      transaction     |-> None,
      duration        |-> duration,
      is_transaction  |-> is_transaction,
      errors          |-> errors,
      project_slug    |-> "proj",
      start_timestamp |-> 0,
      end_timestamp   |-> 0,
      children        |-> <<>> ]

\* the span with start_timestamp and end_timestamp set (1/TimeScale seconds)
Timed(span, start, end) ==
    [span EXCEPT !.start_timestamp = start, !.end_timestamp = end]

\* The shapes of the forests of n nodes: the depth of every node, listed in
\* document order.  The first node is a root and a node lies at most one
\* level below the node before it.
Shapes(n) ==
    { d \in [1..n -> 0..(n - 1)] :
          /\ n > 0 => d[1] = 0
          /\ \A i \in 1..(n - 1) : d[i + 1] <= d[i] + 1 }

\* The forest made of the nodes lo..hi of a shape, whose roots lie at depth
\* at; node i takes its fields from fields[i] and event_id numbers the nodes
\* in document order, so it identifies a node.
RECURSIVE BuildForest(_, _, _, _, _)
BuildForest(shape, fields, lo, hi, at) ==
    LET roots == { i \in lo..hi : shape[i] = at }
        root(k) == CHOOSE r \in roots : Cardinality({ x \in roots : x < r }) = k - 1
        last(k) == IF k = Cardinality(roots) THEN hi ELSE root(k + 1) - 1
    IN [ k \in 1..Cardinality(roots) |->
           [ fields[root(k)] EXCEPT
               !.event_id = root(k),
               !.children = BuildForest(shape, fields, root(k) + 1, last(k), at + 1) ] ]

\* Every node of a forest, at every depth.
RECURSIVE Nodes(_)
Nodes(forest) ==
    UNION { {forest[i]} \cup Nodes(forest[i].children) : i \in 1..Len(forest) }

--------------------------------------------------------------------------
(* Interesting-span selector *)

\* variant: the child has to exceed the threshold strictly
dominated_by_one_child_strict(span) ==
    /\ Len(span.children) = 1
    /\ span.children[1].duration * DOMINATED_THRESHOLD[2]
           > span.duration * DOMINATED_THRESHOLD[1]

dominated_by_one_child(span) ==
    /\ Len(span.children) = 1
    /\ span.children[1].duration * DOMINATED_THRESHOLD[2]
           >= span.duration * DOMINATED_THRESHOLD[1]

dominated_skip(span) == dominated_by_one_child(span) /\ ~span.is_transaction

\* variant: a transaction has to qualify by its errors or its duration
is_interesting_without_transactions(span) ==
    \/ span.errors # <<>>
    \/ span.duration >= MIN_INTERESTING_DURATION_MS * Scale

\* variant: a duration has to exceed the minimum to count
is_interesting_above_minimum(span) ==
    \/ span.is_transaction
    \/ span.errors # <<>>
    \/ span.duration > MIN_INTERESTING_DURATION_MS * Scale

is_interesting(span) ==
    \/ span.is_transaction
    \/ span.errors # <<>>
    \/ span.duration >= MIN_INTERESTING_DURATION_MS * Scale

RECURSIVE collect_interesting(_, _), collect_interesting_children(_, _, _)
\* variant: the children of a skipped span are not visited
collect_interesting_stops_at_skipped(span, out) ==
    IF dominated_skip(span) THEN out
    ELSE LET filtered == [span EXCEPT !.children = <<>>]
             pushed == IF is_interesting(span) THEN Append(out, filtered)
                       ELSE out
         IN collect_interesting_children(span.children, 1, pushed)

\* variant: the snapshot keeps the children of the span
collect_interesting_with_children(span, out) ==
    LET pushed == IF ~dominated_skip(span) /\ is_interesting(span)
                  THEN Append(out, span)
                  ELSE out
    IN collect_interesting_children(span.children, 1, pushed)

collect_interesting(span, out) ==
    LET filtered == [span EXCEPT !.children = <<>>]
        pushed == IF ~dominated_skip(span) /\ is_interesting(span)
                  THEN Append(out, filtered)
                  ELSE out
    IN collect_interesting_children(span.children, 1, pushed)

\* the loop "for child in &span.children" (also the loop over the roots)
collect_interesting_children(children, i, out) ==
    IF i > Len(children) THEN out
    ELSE collect_interesting_children(children, i + 1,
                                      collect_interesting(children[i], out))

\* variant: an element is put before the elements equal to it
insert_desc_before_equals(sorted, x, key) ==
    LET p == Cardinality({ i \in 1..Len(sorted) : key[sorted[i]] > key[x] })
    IN SubSeq(sorted, 1, p) \o <<x>> \o SubSeq(sorted, p + 1, Len(sorted))

\* slice::sort_by with the comparator |a, b| key(b).partial_cmp(&key(a)): a
\* stable sort, largest key first.  key maps every element to its f64 key.
\* Insertion after the elements that are not smaller keeps equal elements in
\* their original order.
insert_desc(sorted, x, key) ==
    LET p == Cardinality({ i \in 1..Len(sorted) : key[sorted[i]] >= key[x] })
    IN SubSeq(sorted, 1, p) \o <<x>> \o SubSeq(sorted, p + 1, Len(sorted))

RECURSIVE sort_by_desc(_, _)
sort_by_desc(s, key) ==
    IF s = <<>> THEN <<>>
    ELSE insert_desc(sort_by_desc(SubSeq(s, 1, Len(s) - 1), key), s[Len(s)], key)

Range(s) == { s[i] : i \in 1..Len(s) }

\* collected.sort_by(|a, b| b.duration.partial_cmp(&a.duration).unwrap())
sort_by_duration_desc(s) == sort_by_desc(s, [ x \in Range(s) |-> x.duration ])

\* variant: the sorted list is returned whole
select_interesting_spans_untruncated(forest, max_spans) ==
    sort_by_duration_desc(collect_interesting_children(forest, 1, <<>>))

select_interesting_spans(forest, max_spans) ==
    LET collected == collect_interesting_children(forest, 1, <<>>)
    IN truncate(sort_by_duration_desc(collected), max_spans)

--------------------------------------------------------------------------
(* Operation aggregator *)

\* HashMap<String, (i32, f64)> is a function from the keys present to
\* <<count, total>>; HashMap::new() is the function with the empty domain.
EmptyMap == << >>

\* ops.entry(op).or_insert((0, 0.0))
entry_or_insert(map, op) == IF op \in DOMAIN map THEN map[op] ELSE <<0, 0>>

\* variant: a bucket is credited only when it is created
collect_own_first_only(span, map) ==
    IF IsSome(span.op) /\ span.op[1] \notin DOMAIN map
    THEN [ k \in DOMAIN map \cup { span.op[1] } |->
             IF k = span.op[1] THEN <<1, span.duration>> ELSE map[k] ]
    ELSE map

RECURSIVE children_duration(_, _)
children_duration(children, i) ==
    IF i > Len(children) THEN 0
    ELSE children[i].duration + children_duration(children, i + 1)

\* variant: a node is credited with its children's durations too
collect_own_inclusive(span, map) ==
    IF IsSome(span.op)
    THEN LET op == span.op[1]
             entry == entry_or_insert(map, op)
         IN [ k \in DOMAIN map \cup {op} |->
                IF k = op
                THEN <<entry[1] + 1,
                       entry[2] + span.duration
                                + children_duration(span.children, 1)>>
                ELSE map[k] ]
    ELSE map

\* the node's own contribution
collect_own(span, map) ==
    IF IsSome(span.op)
    THEN LET op == span.op[1]
             entry == entry_or_insert(map, op)
         IN [ k \in DOMAIN map \cup {op} |->
                IF k = op THEN <<entry[1] + 1, entry[2] + span.duration>>
                ELSE map[k] ]
    ELSE map

RECURSIVE collect_operations(_, _), collect_operations_children(_, _, _)
\* variant: the children of a node without an operation name are not visited
collect_operations_pruned(span, map) ==
    IF IsSome(span.op)
    THEN collect_operations_children(span.children, 1, collect_own(span, map))
    ELSE map

collect_operations(span, map) ==
    collect_operations_children(span.children, 1, collect_own(span, map))

\* the loop "for child in &span.children"; format_trace_output runs the same
\* loop over the roots
collect_operations_children(children, i, map) ==
    IF i > Len(children) THEN map
    ELSE collect_operations_children(children, i + 1,
                                     collect_operations(children[i], map))

--------------------------------------------------------------------------
(* Tree renderer *)

\* format!("{:.2}", x) for x = h hundredths: all the digits of the integer
\* part, a point and two decimals
fixed2(h) ==
    ToString(h \div 100) \o "." \o
        (IF h % 100 < 10 THEN "0" ELSE "") \o ToString(h % 100)

\* a / b rounded to the nearest integer.  The code divides and prints f64
\* values; for a decimal with more than two places the printed value is the
\* nearest hundredth.  When the decimal lies exactly halfway the binary value
\* decides; the inputs of this model leave those values out.
div_round(a, b) == (2 * a + b) \div (2 * b)

\* variant: one second exactly is still printed as milliseconds
format_duration_late(d) ==
    IF d > 1000 * Scale
    THEN fixed2(div_round(d * 100, 1000 * Scale)) \o "s"
    ELSE fixed2(div_round(d * 100, Scale)) \o "ms"

format_duration(d) ==
    IF d >= 1000 * Scale
    THEN fixed2(div_round(d * 100, 1000 * Scale)) \o "s"
    ELSE fixed2(div_round(d * 100, Scale)) \o "ms"

\* "  ".repeat(depth)
RECURSIVE repeat(_, _)
repeat(str, n) == IF n = 0 THEN "" ELSE str \o repeat(str, n - 1)

\* Option::unwrap_or
unwrap_or(o, default) == IF IsSome(o) THEN o[1] ELSE default

\* the line format_span_tree pushes for the span itself
span_line(span, depth) ==
    LET indent == repeat("  ", depth)
        duration == format_duration(span.duration)
        op == unwrap_or(span.op, "unknown")
        desc == unwrap_or(IF IsSome(span.description) THEN span.description
                          ELSE span.transaction,
                          "(no description)")
        has_errors == span.errors # <<>>
        status_icon == IF has_errors THEN "x" ELSE "v"
        tx_marker == IF span.is_transaction THEN " [tx]" ELSE ""
    IN indent \o status_icon \o " [" \o op \o "] " \o desc \o " (" \o duration
          \o ") " \o span.project_slug \o tx_marker

RECURSIVE format_span_tree(_, _, _), format_span_tree_children(_, _, _, _)
\* variant: the children are rendered at the depth of their parent
format_span_tree_same_depth(span, depth, out) ==
    format_span_tree_children(span.children, 1, depth,
                              Append(out, span_line(span, depth)))

format_span_tree(span, depth, out) ==
    format_span_tree_children(span.children, 1, depth + 1,
                              Append(out, span_line(span, depth)))

\* the loop "for child in &span.children", each child at the given depth
format_span_tree_children(children, i, depth, out) ==
    IF i > Len(children) THEN out
    ELSE format_span_tree_children(children, i + 1, depth,
                                   format_span_tree(children[i], depth, out))

--------------------------------------------------------------------------
(* Report composer *)

\* TraceMeta; span_count and the values of span_count_map are f64, kept in
\* 1/Scale units
TraceMeta(span_count, errors, performance_issues, span_count_map) ==
    [ logs               |-> 0,
      errors             |-> errors,
      performance_issues |-> performance_issues,
      span_count         |-> span_count,
      span_count_map     |-> span_count_map ]

\* the cast "as i64" of a finite f64: the fraction is dropped
as_i64(x) == IF x >= 0 THEN x \div Scale ELSE 0 - ((0 - x) \div Scale)

\* count_transactions without the descent into the children
count_transactions_roots_only(forest) ==
    Cardinality({ i \in 1..Len(forest) : forest[i].is_transaction })

RECURSIVE count_transactions(_)
count_transactions(forest) ==
    IF forest = <<>> THEN 0
    ELSE count_transactions(SubSeq(forest, 1, Len(forest) - 1))
            + (IF forest[Len(forest)].is_transaction THEN 1 ELSE 0)
            + count_transactions(forest[Len(forest)].children)

\* compute_time_range without the tests for 0.0: a missing start or end
\* takes part in the minimum and the maximum
RECURSIVE compute_time_range_zero_included(_, _, _, _)
compute_time_range_zero_included(forest, i, min_start, max_end) ==
    IF i > Len(forest) THEN <<min_start, max_end>>
    ELSE LET span == forest[i]
             s1 == IF span.start_timestamp < min_start
                   THEN span.start_timestamp ELSE min_start
             e1 == IF span.end_timestamp > max_end
                   THEN span.end_timestamp ELSE max_end
             child == compute_time_range_zero_included(span.children, 1,
                                                       F64_MAX, 0 - F64_MAX)
             s2 == IF child[1] < s1 THEN child[1] ELSE s1
             e2 == IF child[2] > e1 THEN child[2] ELSE e1
         IN compute_time_range_zero_included(forest, i + 1, s2, e2)

\* compute_time_range with the accumulators passed along: the loop over the
\* spans from index i on
RECURSIVE compute_time_range_from(_, _, _, _)
compute_time_range_from(forest, i, min_start, max_end) ==
    IF i > Len(forest) THEN <<min_start, max_end>>
    ELSE LET span == forest[i]
             s1 == IF span.start_timestamp > 0 /\ span.start_timestamp < min_start
                   THEN span.start_timestamp ELSE min_start
             e1 == IF span.end_timestamp > 0 /\ span.end_timestamp > max_end
                   THEN span.end_timestamp ELSE max_end
             child == compute_time_range_from(span.children, 1, F64_MAX, 0 - F64_MAX)
             s2 == IF child[1] < s1 THEN child[1] ELSE s1
             e2 == IF child[2] > e1 THEN child[2] ELSE e1
         IN compute_time_range_from(forest, i + 1, s2, e2)

compute_time_range(forest) ==
    compute_time_range_from(forest, 1, F64_MAX, 0 - F64_MAX)

\* duration_lines with a range of zero counted as a total
duration_lines_zero_total(forest) ==
    IF forest = <<>> THEN <<>>
    ELSE LET root == forest[1]
             range == compute_time_range(forest)
             total_duration_ms ==
                 (range[2] - range[1]) * ((1000 * Scale) \div TimeScale)
         IN IF total_duration_ms >= 0
            THEN << "**Total Duration:** " \o format_duration(total_duration_ms) >>
            ELSE << "**Root Duration:** " \o format_duration(root.duration) >>

\* variant: the Root Duration shown is that of the last root
duration_lines_last_root(forest) ==
    IF forest = <<>> THEN <<>>
    ELSE LET root == forest[Len(forest)]
             range == compute_time_range(forest)
             total_duration_ms ==
                 (range[2] - range[1]) * ((1000 * Scale) \div TimeScale)
         IN IF total_duration_ms > 0
            THEN << "**Total Duration:** " \o format_duration(total_duration_ms) >>
            ELSE << "**Root Duration:** " \o format_duration(root.duration) >>

\* the duration line, present when the forest has a first root
duration_lines(forest) ==
    IF forest = <<>> THEN <<>>
    ELSE LET root == forest[1]
             range == compute_time_range(forest)
             total_duration_ms ==
                 (range[2] - range[1]) * ((1000 * Scale) \div TimeScale)
         IN IF total_duration_ms > 0
            THEN << "**Total Duration:** " \o format_duration(total_duration_ms) >>
            ELSE << "**Root Duration:** " \o format_duration(root.duration) >>

\* the aggregate over all roots that the composer computes locally
\* variant: only the first root is aggregated
local_operations_first_root(forest) ==
    IF forest = <<>> THEN EmptyMap ELSE collect_operations(forest[1], EmptyMap)

local_operations(forest) == collect_operations_children(forest, 1, EmptyMap)

\* the server-supplied map is present and non-empty
uses_meta_map(m) == IsSome(m) /\ DOMAIN m[1].span_count_map # {}

RECURSIVE meta_entries(_, _, _), local_entries(_, _, _)
meta_entries(sorted, i, map) ==
    IF i > Len(sorted) THEN <<>>
    ELSE << "- **" \o sorted[i] \o "**: " \o ToString(as_i64(map[sorted[i]])) >>
            \o meta_entries(sorted, i + 1, map)

local_entries(sorted, i, map) ==
    IF i > Len(sorted) THEN <<>>
    ELSE << "- **" \o sorted[i] \o "**: " \o ToString(map[sorted[i]][1])
                \o " occurrences, " \o format_duration(map[sorted[i]][2])
                \o " total" >>
            \o local_entries(sorted, i + 1, map)

BreakdownHeader == << "", "## Operation Breakdown", "" >>

\* variant: the entries are listed in the order the map yields them
breakdown_lines_unsorted(forest, m, iter) ==
    IF uses_meta_map(m)
    THEN BreakdownHeader \o meta_entries(iter, 1, m[1].span_count_map)
    ELSE LET map == local_operations(forest)
         IN IF DOMAIN map # {}
            THEN BreakdownHeader \o local_entries(iter, 1, map)
            ELSE <<>>

\* variant: the section is left out when there is no span to aggregate
breakdown_lines_spans_only(forest, m, iter) ==
    IF forest = <<>> THEN <<>>
    ELSE IF uses_meta_map(m)
    THEN BreakdownHeader
            \o meta_entries(sort_by_desc(iter, m[1].span_count_map), 1,
                            m[1].span_count_map)
    ELSE LET map == local_operations(forest)
         IN IF DOMAIN map # {}
            THEN BreakdownHeader
                    \o local_entries(
                          sort_by_desc(iter, [ k \in DOMAIN map |-> map[k][2] ]),
                          1, map)
            ELSE <<>>

\* the Operation Breakdown section; iter is the order in which the HashMap
\* that is listed yields its keys
breakdown_lines(forest, m, iter) ==
    IF uses_meta_map(m)
    THEN BreakdownHeader
            \o meta_entries(sort_by_desc(iter, m[1].span_count_map), 1,
                            m[1].span_count_map)
    ELSE LET map == local_operations(forest)
         IN IF DOMAIN map # {}
            THEN BreakdownHeader
                    \o local_entries(
                          sort_by_desc(iter, [ k \in DOMAIN map |-> map[k][2] ]),
                          1, map)
            ELSE <<>>

Fence == "'''"

RECURSIVE span_tree_lines(_, _)
\* the loop that renders every selected span at depth 0
span_tree_lines(selected, i) ==
    IF i > Len(selected) THEN <<>>
    ELSE format_span_tree(selected[i], 0, <<>>) \o span_tree_lines(selected, i + 1)

format_trace_output(trace_id, forest, m, iter) ==
    << "# Trace Details", "", "**Trace ID:** " \o trace_id,
       "**Transactions:** " \o ToString(count_transactions(forest)) >>
    \o (IF IsSome(m)
        THEN << "**Total Spans:** " \o ToString(as_i64(m[1].span_count)),
                "**Errors:** " \o ToString(m[1].errors),
                "**Performance Issues:** " \o ToString(m[1].performance_issues) >>
        ELSE <<>>)
    \o duration_lines(forest)
    \o breakdown_lines(forest, m, iter)
    \o << "", "## Span Tree", "", Fence >>
    \o span_tree_lines(select_interesting_spans(forest, MAX_INTERESTING_SPANS), 1)
    \o << Fence >>

\* the keys of the HashMap the breakdown iterates over
iterated_keys(forest, m) ==
    IF uses_meta_map(m) THEN DOMAIN m[1].span_count_map
    ELSE DOMAIN local_operations(forest)

\* HashMap iteration yields every key once, in an unspecified order
IterationOrders(keys) ==
    { q \in [1..Cardinality(keys) -> keys] : Range(q) = keys }

--------------------------------------------------------------------------
--------------------------------------------------------------------------
(* Issue and event reports *)

\* Issue as get_issue_details reads it: first_seen and last_seen are
\* printed as strings
Issue(id, title, optional, tags) ==
    [ id             |-> id,
      short_id       |-> "PROJ-" \o id,
      title          |-> title,
      culprit        |-> optional,
      permalink      |-> IF optional = None THEN None
                         ELSE Some("https://sentry.io/issues/" \o id),
      first_seen     |-> "2024-01-01T00:00:00Z",
      last_seen      |-> "2024-01-02T00:00:00Z",
      count          |-> "10",
      user_count     |-> 5,
      status         |-> "unresolved",
      substatus      |-> None,
      level          |-> optional,
      platform       |-> optional,
      project        |-> [ id |-> "1", name |-> "test-project",
                           slug |-> "test-project" ],
      tags           |-> tags,
      issue_type     |-> optional,
      issue_category |-> optional ]

IssueTag(key, name, total_values) ==
    [ key |-> key, name |-> name, total_values |-> total_values ]

EventTag(key, value) == [ key |-> key, value |-> value ]

\* EventEntry; data is the JSON object read by its keys "values" (an array
\* of exceptions, each read by "type" and "value" and without a stacktrace)
\* and "formatted"
EventEntry(entry_type, values, formatted) ==
    [ entry_type |-> entry_type,
      data       |-> [ values |-> values, formatted |-> formatted ] ]

Exception(type, value) == [ type |-> type, value |-> value ]

\* Event with empty context and contexts objects
Event(id, date_created, platform, message, tags, entries) ==
    [ id           |-> id,
      event_id     |-> id,
      date_created |-> date_created,
      message      |-> message,
      platform     |-> platform,
      tags         |-> tags,
      entries      |-> entries ]

\* the lines "label value" of an optional field
optional_line(label, o) ==
    IF IsSome(o) THEN << label \o o[1] >> ELSE <<>>

RECURSIVE join(_, _)
join(strs, sep) ==
    IF strs = <<>> THEN ""
    ELSE IF Len(strs) = 1 THEN strs[1]
    ELSE join(SubSeq(strs, 1, Len(strs) - 1), sep) \o sep \o strs[Len(strs)]

RECURSIVE concat(_)
concat(seqs) ==
    IF seqs = <<>> THEN <<>>
    ELSE concat(SubSeq(seqs, 1, Len(seqs) - 1)) \o seqs[Len(seqs)]

\* format_exception for an exception without the key "stacktrace"
format_exception(exc) ==
    << "", "### " \o unwrap_or(exc.type, "Error") \o ": "
               \o unwrap_or(exc.value, "") >>

format_event_entry(entry) ==
    IF entry.entry_type = "exception"
    THEN IF IsSome(entry.data.values)
         THEN concat([ k \in 1..Len(entry.data.values[1]) |->
                          format_exception(entry.data.values[1][k]) ])
         ELSE <<>>
    ELSE IF entry.entry_type = "message" /\ IsSome(entry.data.formatted)
    THEN << "", "### Message", entry.data.formatted[1] >>
    ELSE <<>>

format_event_entries(entries) ==
    concat([ k \in 1..Len(entries) |-> format_event_entry(entries[k]) ])

\* the String get_issue_details builds from the issue and the event
issue_details_output(i, e) ==
    << "# Issue Details", "",
       "**ID:** " \o i.short_id,
       "**Title:** " \o i.title,
       "**Status:** " \o i.status >>
    \o optional_line("**Substatus:** ", i.substatus)
    \o optional_line("**Issue Type:** ", i.issue_type)
    \o optional_line("**Issue Category:** ", i.issue_category)
    \o optional_line("**Level:** ", i.level)
    \o optional_line("**Culprit:** ", i.culprit)
    \o << "**Project:** " \o i.project.name \o " (" \o i.project.slug \o ")" >>
    \o optional_line("**Platform:** ", i.platform)
    \o << "**First Seen:** " \o i.first_seen,
          "**Last Seen:** " \o i.last_seen,
          "**Event Count:** " \o i.count,
          "**User Count:** " \o ToString(i.user_count) >>
    \o optional_line("**URL:** ", i.permalink)
    \o (IF i.tags # <<>>
        THEN << "", "## Tags" >>
             \o [ k \in 1..Len(i.tags) |->
                    "- **" \o i.tags[k].key \o ":** " \o i.tags[k].name
                        \o " (" \o ToString(i.tags[k].total_values) \o " events)" ]
        ELSE <<>>)
    \o << "", "## Latest Event", "",
          "**Event ID:** " \o e.event_id,
          "**Date:** " \o e.date_created[1] >>
    \o optional_line("**Message:** ", e.message)
    \o format_event_entries(e.entries)
    \o (IF e.tags # <<>>
        THEN << "", "### Event Tags" >>
             \o [ k \in 1..Len(e.tags) |->
                    "**" \o e.tags[k].key \o ":** " \o e.tags[k].value ]
        ELSE <<>>)

\* one "## Event k" block of format_events_output
event_block(k, e) ==
    << "## Event " \o ToString(k) \o " - " \o e.event_id, "" >>
    \o optional_line("**Date:** ", e.date_created)
    \o optional_line("**Platform:** ", e.platform)
    \o (IF IsSome(e.message) /\ e.message[1] # ""
        THEN << "**Message:** " \o e.message[1] >> ELSE <<>>)
    \o (IF e.tags # <<>>
        THEN << "**Tags:** "
                  \o join([ t \in 1..Len(e.tags) |->
                              e.tags[t].key \o "=" \o e.tags[t].value ], ", ") >>
        ELSE <<>>)
    \o concat([ n \in 1..Len(e.entries) |->
          IF e.entries[n].entry_type = "exception"
                /\ IsSome(e.entries[n].data.values)
          THEN [ x \in 1..Len(e.entries[n].data.values[1]) |->
                   "**Exception:** "
                      \o unwrap_or(e.entries[n].data.values[1][x].type, "?")
                      \o " - "
                      \o unwrap_or(e.entries[n].data.values[1][x].value, "?") ]
          ELSE <<>> ])
    \o << "" >>

\* format_events_output with the blocks numbered from 0
format_events_output_from_zero(issue_id, query, evs) ==
    << "# Issue Events", "", "**Issue:** " \o issue_id >>
    \o optional_line("**Query:** ", query)
    \o << "**Found:** " \o ToString(Len(evs)) \o " events", "" >>
    \o concat([ k \in 1..Len(evs) |-> event_block(k - 1, evs[k]) ])
    \o (IF evs = <<>> THEN << "No events found matching the query." >>
        ELSE <<>>)

format_events_output(issue_id, query, evs) ==
    << "# Issue Events", "", "**Issue:** " \o issue_id >>
    \o optional_line("**Query:** ", query)
    \o << "**Found:** " \o ToString(Len(evs)) \o " events", "" >>
    \o concat([ k \in 1..Len(evs) |-> event_block(k, evs[k]) ])
    \o (IF evs = <<>> THEN << "No events found matching the query." >>
        ELSE <<>>)

(* parse_issue_url: the first match of
   https?://[^/]+/organizations/([^/]+)/issues/([^/?]+) *)

\* the text of str from position i on that has the length of prefix
HasAt(str, i, prefix) ==
    /\ i + Len(prefix) - 1 <= Len(str)
    /\ SubSeq(str, i, i + Len(prefix) - 1) = prefix

\* the first position from i on that holds a character of stops, or
\* Len(str) + 1
RECURSIVE run_end(_, _, _)
run_end(str, i, stops) ==
    IF i > Len(str) \/ SubSeq(str, i, i) \in stops THEN i
    ELSE run_end(str, i + 1, stops)

\* the captures of a match that starts at position p, or None
match_issue_url_at(url, p) ==
    LET host == IF HasAt(url, p, "http://") THEN p + 7
                ELSE IF HasAt(url, p, "https://") THEN p + 8
                ELSE 0
        host_end == run_end(url, host, { "/" })
        org == host_end + 15
        org_end == run_end(url, org, { "/" })
        id == org_end + 8
        id_end == run_end(url, id, { "/", "?" })
    IN IF /\ host > 0
          /\ host_end > host
          /\ HasAt(url, host_end, "/organizations/")
          /\ org_end > org
          /\ HasAt(url, org_end, "/issues/")
          /\ id_end > id
       THEN Some(<< SubSeq(url, org, org_end - 1), SubSeq(url, id, id_end - 1) >>)
       ELSE None

parse_issue_url(url) ==
    LET starts == { p \in 1..Len(url) : IsSome(match_issue_url_at(url, p)) }
    IN IF starts = {} THEN None
       ELSE match_issue_url_at(url, CHOOSE p \in starts : \A q \in starts : p <= q)

--------------------------------------------------------------------------

(* Tool invocations *)

\* Result<CallToolResult, McpError>
success(content) ==
    [ is_error |-> FALSE, code |-> "", message |-> "", content |-> content ]
invalid_params(message) ==
    [ is_error |-> TRUE, code |-> "invalid_params", message |-> message,
      content |-> <<>> ]
internal_error(message) ==
    [ is_error |-> TRUE, code |-> "internal_error", message |-> message,
      content |-> <<>> ]

\* anyhow::Result<T> of a backend operation
Ok(value) == [ ok |-> TRUE, value |-> value, error |-> "" ]
Err(error) == [ ok |-> FALSE, value |-> <<>>, error |-> error ]

\* the entries of the log
Request(op, args) == [ kind |-> "request", op |-> op, args |-> args ]
Response(op, outcome) ==
    [ kind |-> "response", op |-> op, ok |-> outcome.ok,
      value |-> outcome.value, error |-> outcome.error ]

GetIssueDetailsInput(issue_url, organization_slug, issue_id, event_id) ==
    [ tool              |-> "get_issue_details",
      issue_url         |-> issue_url,
      organization_slug |-> organization_slug,
      issue_id          |-> issue_id,
      event_id          |-> event_id ]

GetTraceDetailsInput(organization_slug, trace_id) ==
    [ tool              |-> "get_trace_details",
      organization_slug |-> organization_slug,
      trace_id          |-> trace_id ]

SearchIssueEventsInput(organization_slug, issue_id, query, limit, sort) ==
    [ tool              |-> "search_issue_events",
      organization_slug |-> organization_slug,
      issue_id          |-> issue_id,
      query             |-> query,
      limit             |-> limit,
      sort              |-> sort ]

EventsQuery(query, limit, sort) ==
    [ query |-> query, limit |-> limit, sort |-> sort ]

\* resolve_issue that takes a missing value for the empty string and never
\* returns an error
resolve_issue_without_validation(in) ==
    LET parsed == IF IsSome(in.issue_url) THEN parse_issue_url(in.issue_url[1])
                  ELSE None
    IN IF IsSome(parsed) THEN Ok(parsed[1])
       ELSE Ok(<< unwrap_or(in.organization_slug, ""),
                  unwrap_or(in.issue_id, "") >>)

\* resolve_issue that prefers an explicit organization and issue id to the
\* URL when the input has all three
resolve_issue_explicit_first(in) ==
    IF IsSome(in.organization_slug) /\ IsSome(in.issue_id)
    THEN Ok(<< in.organization_slug[1], in.issue_id[1] >>)
    ELSE IF IsSome(in.issue_url)
    THEN LET parsed == parse_issue_url(in.issue_url[1])
         IN IF IsSome(parsed) THEN Ok(parsed[1])
            ELSE Err("Invalid issue URL format")
    ELSE Err("Either issue_url or organization_slug + issue_id required")

\* the organization and the issue id get_issue_details works on, or the
\* message of the error it returns before any request
resolve_issue(in) ==
    IF IsSome(in.issue_url)
    THEN LET parsed == parse_issue_url(in.issue_url[1])
         IN IF IsSome(parsed) THEN Ok(parsed[1])
            ELSE Err("Invalid issue URL format")
    ELSE IF ~IsSome(in.organization_slug) \/ ~IsSome(in.issue_id)
    THEN Err("Either issue_url or organization_slug + issue_id required")
    ELSE Ok(<< in.organization_slug[1], in.issue_id[1] >>)

\* the effect of one call of a backend operation on the counters and the log
Call(op, args) ==
    /\ calls' = [ calls EXCEPT ![op] = @ + 1 ]
    /\ log' = Append(log, Request(op, args))

\* the effect of a response followed by the call of the next operation
RespondThenCall(outcome, op, args) ==
    /\ calls' = [ calls EXCEPT ![op] = @ + 1 ]
    /\ log' = log \o << Response(pc, outcome), Request(op, args) >>

\* the effect of a response after which the invocation returns
RespondThenReturn(outcome, returned) ==
    /\ log' = Append(log, Response(pc, outcome))
    /\ result' = Some(returned)
    /\ pc' = "returned"
    /\ UNCHANGED calls

(* Orphan errors of a trace response *)

ORPHAN_ERRORS_SHOWN == 5

\* an element of TraceResponse::orphan_errors, a JSON object read by its
\* keys "title" and "project_slug"
OrphanError(title, project_slug) ==
    [ title |-> title, project_slug |-> project_slug ]

orphan_error_line(k, error) ==
    ToString(k) \o ". " \o unwrap_or(error.title, "Unknown")
        \o " (" \o error.project_slug \o ")"

\* the section without the cut after the fifth entry
orphan_errors_section_uncapped(errors) ==
    IF errors = <<>> THEN <<>>
    ELSE << "", "## Orphan Errors", "" >>
            \o [ k \in 1..Len(errors) |-> orphan_error_line(k, errors[k]) ]

\* the section of the report that lists the orphan errors
orphan_errors_section(errors) ==
    IF errors = <<>> THEN <<>>
    ELSE << "", "## Orphan Errors", "" >>
            \o [ k \in 1..Min(Len(errors), ORPHAN_ERRORS_SHOWN) |->
                    orphan_error_line(k, errors[k]) ]

format_orphan_errors(errors) ==
    << "**Orphan Errors:** " \o ToString(Len(errors)) >>
        \o orphan_errors_section(errors)

--------------------------------------------------------------------------

(* Specification of the selector *)

SelectorDurations == { 5 * Scale, 9 * Scale, 10 * Scale }

SelectorFields ==
    { Span(Some("db"), d, t, e) :
          d \in SelectorDurations, t \in BOOLEAN, e \in { <<>>, <<"err">> } }

InitSelect ==
    /\ \E n \in 0..MaxNodes : \E shape \in Shapes(n) :
          \E fields \in [1..n -> SelectorFields] :
             spans = BuildForest(shape, fields, 1, n, 0)
    /\ meta = None
    /\ ms = 0
    /\ arg = 0
    /\ pc = "ready"
    /\ interesting = <<>>
    /\ ops = <<>>
    /\ text = ""
    /\ output = <<>>
    /\ orphan_errors = <<>>
    /\ NoInvocation

SelectInterestingSpans ==
    /\ pc = "ready"
    /\ \E max_spans \in 0..MaxSpansArg :
          /\ arg' = max_spans
          /\ interesting' = select_interesting_spans(spans, max_spans)
    /\ pc' = "select_interesting_spans"
    /\ UNCHANGED <<spans, meta, ms, ops, text, output>>
    /\ UNCHANGED <<orphan_errors, invocation_vars>>

NextSelect == SelectInterestingSpans

SpecSelect == InitSelect /\ [][NextSelect]_vars

--------------------------------------------------------------------------
(* Specification of the aggregator *)

\* JSON gives an absent op, an empty one and named ones
AggregatorOps == { None, Some(""), Some("db"), Some("http") }
AggregatorDurations == { 0, 30 * Scale, 50 * Scale }

AggregatorFields ==
    { Span(o, d, FALSE, <<>>) : o \in AggregatorOps, d \in AggregatorDurations }

InitOps ==
    /\ \E n \in 0..MaxNodes : \E shape \in Shapes(n) :
          \E fields \in [1..n -> AggregatorFields] :
             spans = BuildForest(shape, fields, 1, n, 0)
    /\ meta = None
    /\ ms = 0
    /\ arg = 0
    /\ pc = "ready"
    /\ interesting = <<>>
    /\ ops = EmptyMap
    /\ text = ""
    /\ output = <<>>
    /\ orphan_errors = <<>>
    /\ NoInvocation

\* collect_operations run on every root, starting from an empty map
CollectOperations ==
    /\ pc = "ready"
    /\ ops' = collect_operations_children(spans, 1, EmptyMap)
    /\ pc' = "collect_operations"
    /\ UNCHANGED <<spans, meta, ms, arg, interesting, text, output>>
    /\ UNCHANGED <<orphan_errors, invocation_vars>>

NextOps == CollectOperations

SpecOps == InitOps /\ [][NextOps]_vars

--------------------------------------------------------------------------
(* Specification of format_duration *)

\* Durations in hundredths of a millisecond around 0, around the boundary of
\* one second, around 2.5 s and 10 s, and on both sides of 1005 ms, which
\* lies halfway between 1.00 s and 1.01 s.
DurationAnchors == { 0, 1000 * Scale, 2500 * Scale, 10000 * Scale }
HalfwayAnchors == { 1005 * Scale }

DurationInputs ==
    { a + o : a \in DurationAnchors, o \in (0 - MaxOffset)..MaxOffset }
    \cup { a + o : a \in HalfwayAnchors,
                   o \in ((0 - MaxOffset)..MaxOffset) \ {0} }

InitDuration ==
    /\ ms \in { d \in DurationInputs : d >= 0 }
    /\ spans = <<>>
    /\ meta = None
    /\ arg = 0
    /\ pc = "ready"
    /\ interesting = <<>>
    /\ ops = EmptyMap
    /\ text = ""
    /\ output = <<>>
    /\ orphan_errors = <<>>
    /\ NoInvocation

FormatDuration ==
    /\ pc = "ready"
    /\ text' = format_duration(ms)
    /\ pc' = "format_duration"
    /\ UNCHANGED <<spans, meta, ms, arg, interesting, ops, output>>
    /\ UNCHANGED <<orphan_errors, invocation_vars>>

NextDuration == FormatDuration

SpecDuration == InitDuration /\ [][NextDuration]_vars

--------------------------------------------------------------------------
(* Specification of format_span_tree *)

TreeOps == { None, Some("db"), Some("http"), Some("cache") }

TreeFields ==
    { Span(o, 30 * Scale, FALSE, e) : o \in TreeOps, e \in { <<>>, <<"err">> } }

InitTree ==
    /\ \E n \in 0..MaxNodes : \E shape \in Shapes(n) :
          \E fields \in [1..n -> TreeFields] :
             spans = BuildForest(shape, fields, 1, n, 0)
    /\ meta = None
    /\ ms = 0
    /\ arg = 0
    /\ pc = "ready"
    /\ interesting = <<>>
    /\ ops = EmptyMap
    /\ text = ""
    /\ output = <<>>
    /\ orphan_errors = <<>>
    /\ NoInvocation

\* format_span_tree(&root, depth, &mut output) on an empty output
FormatSpanTree ==
    /\ pc = "ready"
    /\ \E i \in 1..Len(spans), depth \in 0..MaxStartDepth :
          /\ arg' = <<i, depth>>
          /\ output' = format_span_tree(spans[i], depth, <<>>)
    /\ pc' = "format_span_tree"
    /\ UNCHANGED <<spans, meta, ms, interesting, ops, text>>
    /\ UNCHANGED <<orphan_errors, invocation_vars>>

NextTree == FormatSpanTree

SpecTree == InitTree /\ [][NextTree]_vars

--------------------------------------------------------------------------
(* Specification of format_trace_output *)

TraceIds == { "abc123def456", "trace-id" }

ReportFields ==
    { Span(o, d, t, <<>>) :
          o \in { None, Some("db"), Some("http") },
          d \in { 30 * Scale, 50 * Scale },
          t \in BOOLEAN }

\* the forest with timing data: node k starts at second k and ends at
\* second k + 1
RECURSIVE WithTimestamps(_)
WithTimestamps(forest) ==
    [ i \in 1..Len(forest) |->
        [ Timed(forest[i], forest[i].event_id * TimeScale,
                (forest[i].event_id + 1) * TimeScale)
          EXCEPT !.children = WithTimestamps(forest[i].children) ] ]

\* server maps over the names db and http; 200.5 is printed as 200
ReportMapValues == { 100 * Scale, 200 * Scale + Scale \div 2 }
ReportMaps ==
    UNION { [ keys -> ReportMapValues ] : keys \in SUBSET { "db", "http" } }

ReportMetas ==
    { None } \cup
    { Some(TraceMeta(1122 * Scale + Scale \div 2, 2, 1, map)) : map \in ReportMaps }

\* a forest whose nodes all lack timing data (0.0) or all carry it
InitReport ==
    /\ \E n \in 0..MaxReportNodes : \E shape \in Shapes(n) :
          \E fields \in [1..n -> ReportFields] :
             LET forest == BuildForest(shape, fields, 1, n, 0)
             IN spans \in { forest, WithTimestamps(forest) }
    /\ meta \in ReportMetas
    /\ ms = 0
    /\ arg = 0
    /\ pc = "ready"
    /\ interesting = <<>>
    /\ ops = EmptyMap
    /\ text = ""
    /\ output = <<>>
    /\ orphan_errors = <<>>
    /\ NoInvocation

FormatTraceOutput ==
    /\ pc = "ready"
    /\ \E trace_id \in TraceIds,
          iter \in IterationOrders(iterated_keys(spans, meta)) :
          /\ arg' = [ trace_id |-> trace_id, iter |-> iter ]
          /\ output' = format_trace_output(trace_id, spans, meta, iter)
    /\ pc' = "format_trace_output"
    /\ UNCHANGED <<spans, meta, ms, interesting, ops, text>>
    /\ UNCHANGED <<orphan_errors, invocation_vars>>

NextReport == FormatTraceOutput

SpecReport == InitReport /\ [][NextReport]_vars

(* Specification of format_trace_output over forests with timing data *)

\* start and end of a node, each absent (0.0) or present; an end equal to a
\* start gives a range of zero
RangeStarts == { 0, 1 * TimeScale, 2 * TimeScale }
RangeEnds == { 0, 2 * TimeScale, 2 * TimeScale + TimeScale \div 2 }

RangeFields ==
    { Timed(Span(None, 30 * Scale, FALSE, <<>>), s, e) :
          s \in RangeStarts, e \in RangeEnds }

\* every node with a duration of its own: 30 ms for the first node in
\* preorder, 50 ms for the second, and so on
RECURSIVE WithOwnDurations(_)
WithOwnDurations(forest) ==
    [ i \in 1..Len(forest) |->
        [ forest[i] EXCEPT !.duration = (10 + 20 * forest[i].event_id) * Scale,
                           !.children = WithOwnDurations(forest[i].children) ] ]

InitRange ==
    /\ \E n \in 0..MaxRangeNodes : \E shape \in Shapes(n) :
          \E fields \in [1..n -> RangeFields] :
             spans = WithOwnDurations(BuildForest(shape, fields, 1, n, 0))
    /\ meta = None
    /\ ms = 0
    /\ arg = 0
    /\ pc = "ready"
    /\ interesting = <<>>
    /\ ops = EmptyMap
    /\ text = ""
    /\ output = <<>>
    /\ orphan_errors = <<>>
    /\ NoInvocation

NextRange == FormatTraceOutput

SpecRange == InitRange /\ [][NextRange]_vars
(* Specification of format_trace_output over wide forests *)

\* the shapes of the wide forests: n roots, one chain of n nodes, or one root
\* with n - 1 children
WideShapes(n) ==
    { [ i \in 1..n |-> 0 ],
      [ i \in 1..n |-> i - 1 ],
      [ i \in 1..n |-> IF i = 1 THEN 0 ELSE 1 ] }

\* the fields of node k (in document order) of a wide forest:
\*   rising   durations grow with k, no transactions
\*   falling  durations shrink with k, every second node is a transaction
\*   equal    every node lasts 20 ms
\*   mixed    distinct durations, every fourth node lasts 5 ms, every fifth
\*            node carries an error
WidePatterns == { "rising", "falling", "equal", "mixed" }

WideField(pattern, k) ==
    LET op == IF k % 2 = 0 THEN Some("db") ELSE Some("http")
    IN CASE pattern = "rising" -> Span(op, (10 + k) * Scale, FALSE, <<>>)
         [] pattern = "falling" -> Span(op, (60 - k) * Scale, k % 2 = 0, <<>>)
         [] pattern = "equal" -> Span(op, 20 * Scale, FALSE, <<>>)
         [] pattern = "mixed" ->
               Span(op,
                    IF k % 4 = 0 THEN 5 * Scale
                    ELSE (10 + ((7 * k) % 23)) * Scale,
                    FALSE,
                    IF k % 5 = 0 THEN <<"err">> ELSE <<>>)

InitWide ==
    /\ \E n \in 0..MaxWideNodes : \E shape \in WideShapes(n) :
          \E pattern \in WidePatterns :
             spans = BuildForest(shape, [ k \in 1..n |-> WideField(pattern, k) ],
                                 1, n, 0)
    /\ meta = None
    /\ ms = 0
    /\ arg = 0
    /\ pc = "ready"
    /\ interesting = <<>>
    /\ ops = EmptyMap
    /\ text = ""
    /\ output = <<>>
    /\ orphan_errors = <<>>
    /\ NoInvocation

NextWide == FormatTraceOutput

SpecWide == InitWide /\ [][NextWide]_vars

--------------------------------------------------------------------------

(* Specification of the orphan error list *)

OrphanErrorInputs ==
    { OrphanError(Some("Error 1"), "proj-a"),
      OrphanError(Some("Error 2"), "proj-b"),
      OrphanError(None, "proj") }

InitOrphans ==
    /\ \E n \in 0..MaxOrphans : orphan_errors \in [1..n -> OrphanErrorInputs]
    /\ spans = <<>>
    /\ meta = None
    /\ ms = 0
    /\ arg = 0
    /\ pc = "ready"
    /\ interesting = <<>>
    /\ ops = EmptyMap
    /\ text = ""
    /\ output = <<>>
    /\ NoInvocation

FormatOrphanErrors ==
    /\ pc = "ready"
    /\ output' = format_orphan_errors(orphan_errors)
    /\ pc' = "format_orphan_errors"
    /\ UNCHANGED <<spans, meta, ms, arg, interesting, ops, text>>
    /\ UNCHANGED <<orphan_errors, invocation_vars>>

NextOrphans == FormatOrphanErrors

SpecOrphans == InitOrphans /\ [][NextOrphans]_vars
(* Specification of the tool invocations *)

UpstreamErrors == { "API rate limit exceeded", "Server error" }

IssueUrls ==
    { "https://sentry.io/organizations/test-org/issues/123/",
      "http://sentry.example.com/organizations/acme/issues/PROJ-9?referrer=x",
      "https://invalid-url.com/not-sentry",
      "https://sentry.io/organizations//issues/123/" }

IssueInputs ==
    { GetIssueDetailsInput(url, org, id, ev) :
          url \in { None } \cup { Some(u) : u \in IssueUrls },
          org \in { None, Some("my-org") },
          id \in { None, Some("456") },
          ev \in { None, Some("evt-1") } }

IssueResponses ==
    { Ok(Issue("123", "Test Issue", Some("error"),
               << IssueTag("environment", "Environment", 1) >>)),
      Ok(Issue("456", "Other Issue", None, <<>>)) }
    \cup { Err(e) : e \in UpstreamErrors }

EventValues ==
    { Event("evt-1", Some("2024-01-01T12:00:00Z"), Some("rust"),
            Some("Test message"), << EventTag("server_name", "web-1") >>, <<>>),
      Event("evt-2", Some("2024-01-02T12:00:00Z"), None, None, <<>>,
            << EventEntry("message", None, Some("formatted text")),
               EventEntry("exception",
                          Some(<< Exception(Some("ValueError"), Some("bad")),
                                  Exception(None, None) >>), None) >>) }

EventResponses ==
    { Ok(e) : e \in EventValues } \cup { Err(e) : e \in UpstreamErrors }

TraceInputs ==
    { GetTraceDetailsInput("test-org", id) : id \in TraceIds }

TraceResponses ==
    { Ok(BuildForest(shape, fields, 1, Len(shape), 0)) :
          shape \in UNION { Shapes(n) : n \in 0..MaxReportNodes },
          fields \in [1..MaxReportNodes -> ReportFields] }
    \cup { Err(e) : e \in UpstreamErrors }

TraceMetaResponses ==
    { Ok(TraceMeta(1122 * Scale + Scale \div 2, 2, 1, map)) :
          map \in { EmptyMap, [ k \in { "db" } |-> 100 * Scale ] } }
    \cup { Err(e) : e \in UpstreamErrors }

SearchLimits == { None } \cup { Some(l) : l \in { 0 - 1, 0, 5, 100, 101, 1000 } }

SearchInputs ==
    { SearchIssueEventsInput("test-org", "123", q, l, s) :
          q \in { None, Some("server_name:web-1") },
          l \in SearchLimits,
          s \in { None, Some("oldest") } }

EventsResponses ==
    { Ok(evs) : evs \in UNION { [1..n -> EventValues] : n \in 0..MaxEvents } }
    \cup { Err(e) : e \in UpstreamErrors }

InitInvoke ==
    /\ spans = <<>>
    /\ meta = None
    /\ ms = 0
    /\ arg = 0
    /\ pc = "ready"
    /\ interesting = <<>>
    /\ ops = EmptyMap
    /\ text = ""
    /\ output = <<>>
    /\ orphan_errors = <<>>
    /\ NoInvocation

trace_vars == <<spans, meta, ms, interesting, ops, text, orphan_errors, suspended>>
\* get_issue_details::execute up to its first await: the input is
\* validated and get_issue is called
InvokeGetIssueDetails ==
    /\ pc = "ready"
    /\ \E in \in IssueInputs :
          LET target == resolve_issue(in)
          IN /\ input' = Some(in)
             /\ IF target.ok
                THEN /\ arg' = target.value
                     /\ Call("get_issue", target.value)
                     /\ pc' = "get_issue"
                     /\ UNCHANGED result
                ELSE /\ result' = Some(invalid_params(target.error))
                     /\ pc' = "returned"
                     /\ UNCHANGED <<arg, calls, log>>
    /\ UNCHANGED <<issue, event, events, output, trace_vars, suspended>>

\* GetIssueResponds that asks for the latest event whatever the input
GetIssueRespondsLatestOnly ==
    /\ pc = "get_issue"
    /\ \E outcome \in IssueResponses :
          IF outcome.ok
          THEN /\ issue' = Some(outcome.value)
               /\ RespondThenCall(outcome, "get_latest_event", arg)
               /\ pc' = "get_latest_event"
               /\ UNCHANGED result
          ELSE /\ RespondThenReturn(outcome, internal_error(outcome.error))
               /\ UNCHANGED issue
    /\ UNCHANGED <<input, arg, event, events, output, trace_vars, suspended>>

\* get_issue answers: on an error the invocation returns it, otherwise the
\* event is asked for, by its id when the input has one
GetIssueResponds ==
    /\ pc = "get_issue"
    /\ \E outcome \in IssueResponses :
          IF outcome.ok
          THEN /\ issue' = Some(outcome.value)
               /\ IF IsSome(input[1].event_id)
                  THEN /\ RespondThenCall(outcome, "get_event",
                                          Append(arg, input[1].event_id[1]))
                       /\ pc' = "get_event"
                  ELSE /\ RespondThenCall(outcome, "get_latest_event", arg)
                       /\ pc' = "get_latest_event"
               /\ UNCHANGED result
          ELSE /\ RespondThenReturn(outcome, internal_error(outcome.error))
               /\ UNCHANGED issue
    /\ UNCHANGED <<input, arg, event, events, output, trace_vars, suspended>>

\* get_event or get_latest_event answers: on an error the invocation
\* returns it, otherwise it returns the report
EventResponds ==
    /\ pc \in { "get_event", "get_latest_event" }
    /\ \E outcome \in EventResponses :
          IF outcome.ok
          THEN /\ event' = Some(outcome.value)
               /\ output' = issue_details_output(issue[1], outcome.value)
               /\ RespondThenReturn(outcome, success(output'))
          ELSE /\ RespondThenReturn(outcome, internal_error(outcome.error))
               /\ UNCHANGED <<event, output>>
    /\ UNCHANGED <<input, arg, issue, events, trace_vars, suspended>>

\* get_trace_details::execute up to its first await
InvokeGetTraceDetails ==
    /\ pc = "ready"
    /\ \E in \in TraceInputs :
          /\ input' = Some(in)
          /\ Call("get_trace", << in.organization_slug, in.trace_id >>)
    /\ pc' = "get_trace"
    /\ UNCHANGED <<arg, issue, event, events, result, output, trace_vars, suspended>>

\* GetTraceResponds that takes a failed get_trace for an empty trace and
\* goes on
GetTraceRespondsLenient ==
    /\ pc = "get_trace"
    /\ \E outcome \in TraceResponses :
          /\ spans' = IF outcome.ok THEN outcome.value ELSE <<>>
          /\ RespondThenCall(outcome, "get_trace_meta",
                             << input[1].organization_slug, input[1].trace_id >>)
          /\ pc' = "get_trace_meta"
          /\ UNCHANGED result
    /\ UNCHANGED <<input, arg, issue, event, events, output>>
    /\ UNCHANGED <<meta, ms, interesting, ops, text, orphan_errors, suspended>>

\* get_trace answers: on an error the invocation returns it, otherwise the
\* metadata is asked for
GetTraceResponds ==
    /\ pc = "get_trace"
    /\ \E outcome \in TraceResponses :
          IF outcome.ok
          THEN /\ spans' = outcome.value
               /\ RespondThenCall(outcome, "get_trace_meta",
                                  << input[1].organization_slug,
                                     input[1].trace_id >>)
               /\ pc' = "get_trace_meta"
               /\ UNCHANGED result
          ELSE /\ RespondThenReturn(outcome, internal_error(outcome.error))
               /\ UNCHANGED spans
    /\ UNCHANGED <<input, arg, issue, event, events, output>>
    /\ UNCHANGED <<meta, ms, interesting, ops, text, orphan_errors, suspended>>

\* get_trace_meta with its error propagated to the caller
GetTraceMetaRespondsStrict ==
    /\ pc = "get_trace_meta"
    /\ \E outcome \in TraceMetaResponses :
          IF outcome.ok
          THEN /\ meta' = Some(outcome.value)
               /\ \E iter \in IterationOrders(iterated_keys(spans, meta')) :
                     /\ arg' = [ trace_id |-> input[1].trace_id, iter |-> iter ]
                     /\ output' = format_trace_output(input[1].trace_id, spans,
                                                      meta', iter)
               /\ RespondThenReturn(outcome, success(output'))
          ELSE /\ RespondThenReturn(outcome, internal_error(outcome.error))
               /\ UNCHANGED <<meta, arg, output>>
    /\ UNCHANGED <<input, issue, event, events>>
    /\ UNCHANGED <<spans, ms, interesting, ops, text, orphan_errors, suspended>>

\* get_trace_meta answers: an error is dropped by ok() and the report is
\* made without metadata
GetTraceMetaResponds ==
    /\ pc = "get_trace_meta"
    /\ \E outcome \in TraceMetaResponses :
          /\ meta' = IF outcome.ok THEN Some(outcome.value) ELSE None
          /\ \E iter \in IterationOrders(iterated_keys(spans, meta')) :
                /\ arg' = [ trace_id |-> input[1].trace_id, iter |-> iter ]
                /\ output' = format_trace_output(input[1].trace_id, spans,
                                                 meta', iter)
          /\ RespondThenReturn(outcome, success(output'))
    /\ UNCHANGED <<input, issue, event, events>>
    /\ UNCHANGED <<spans, ms, interesting, ops, text, orphan_errors, suspended>>

\* the limit of the request without the cap
capped_limit_uncapped(limit) == unwrap_or(limit, 10)

\* input.limit.unwrap_or(10).min(100)
capped_limit(limit) == Min(unwrap_or(limit, 10), 100)

\* search_issue_events::execute up to its await
InvokeSearchIssueEvents ==
    /\ pc = "ready"
    /\ \E in \in SearchInputs :
          LET limit == capped_limit(in.limit)
              sort == unwrap_or(in.sort, "newest")
              query == EventsQuery(in.query, Some(limit), Some(sort))
          IN /\ input' = Some(in)
             /\ Call("list_events_for_issue",
                     << in.organization_slug, in.issue_id, query >>)
    /\ pc' = "list_events_for_issue"
    /\ UNCHANGED <<arg, issue, event, events, result, output, trace_vars, suspended>>

\* ListEventsResponds that sends a failed request once more
ListEventsRespondsRetry ==
    /\ pc = "list_events_for_issue"
    /\ \E outcome \in EventsResponses :
          IF outcome.ok
          THEN /\ events' = outcome.value
               /\ output' = format_events_output(input[1].issue_id,
                                                 input[1].query, outcome.value)
               /\ RespondThenReturn(outcome, success(output'))
          ELSE IF calls["list_events_for_issue"] < 2
          THEN /\ RespondThenCall(outcome, "list_events_for_issue",
                                  log[Len(log)].args)
               /\ UNCHANGED <<events, output, result, pc>>
          ELSE /\ RespondThenReturn(outcome, internal_error(outcome.error))
               /\ UNCHANGED <<events, output>>
    /\ UNCHANGED <<input, arg, issue, event, trace_vars, suspended>>

\* list_events_for_issue answers: on an error the invocation returns it,
\* otherwise it returns the report of the events
ListEventsResponds ==
    /\ pc = "list_events_for_issue"
    /\ \E outcome \in EventsResponses :
          IF outcome.ok
          THEN /\ events' = outcome.value
               /\ output' = format_events_output(input[1].issue_id,
                                                 input[1].query, outcome.value)
               /\ RespondThenReturn(outcome, success(output'))
          ELSE /\ RespondThenReturn(outcome, internal_error(outcome.error))
               /\ UNCHANGED <<events, output>>
    /\ UNCHANGED <<input, arg, issue, event, trace_vars, suspended>>

NextInvoke ==
    \/ InvokeGetIssueDetails
    \/ GetIssueResponds
    \/ EventResponds
    \/ InvokeGetTraceDetails
    \/ GetTraceResponds
    \/ GetTraceMetaResponds
    \/ InvokeSearchIssueEvents
    \/ ListEventsResponds

SpecInvoke == InitInvoke /\ [][NextInvoke]_vars

\* the results an invocation with input in can return when it runs alone
\* and the backend answers its requests with rs, in this order; they are
\* several when the breakdown iterates over a HashMap of several keys
run_alone(in, rs) ==
    CASE in.tool = "get_issue_details" ->
            LET target == resolve_issue(in)
            IN IF ~target.ok THEN { invalid_params(target.error) }
               ELSE IF ~rs[1].ok THEN { internal_error(rs[1].error) }
               ELSE IF ~rs[2].ok THEN { internal_error(rs[2].error) }
               ELSE { success(issue_details_output(rs[1].value, rs[2].value)) }
      [] in.tool = "get_trace_details" ->
            IF ~rs[1].ok THEN { internal_error(rs[1].error) }
            ELSE LET m == IF rs[2].ok THEN Some(rs[2].value) ELSE None
                 IN { success(format_trace_output(in.trace_id, rs[1].value, m, iter)) :
                         iter \in IterationOrders(iterated_keys(rs[1].value, m)) }
      [] in.tool = "search_issue_events" ->
            IF ~rs[1].ok THEN { internal_error(rs[1].error) }
            ELSE { success(format_events_output(in.issue_id, in.query,
                                                rs[1].value)) }


--------------------------------------------------------------------------
(* Specification of interleaved invocations on one SentryTools handle *)

\* The handle is shared by the invocations in flight.  One of them is being
\* polled: its future's state is held by the variables input, issue, event,
\* events, log, result, pc, arg, output, spans and meta.  The others are
\* in suspended.  The executor may turn to another invocation when the
\* polled one is awaiting a response or has returned.  calls belongs to
\* the client and counts the requests of all invocations.

\* the state of the future being polled
Context ==
    [ input |-> input, issue |-> issue, event |-> event, events |-> events,
      log |-> log, result |-> result, pc |-> pc, arg |-> arg,
      output |-> output, spans |-> spans, meta |-> meta ]

\* the future of a handler that has not been polled yet
FreshContext ==
    [ input |-> None, issue |-> None, event |-> None, events |-> <<>>,
      log |-> <<>>, result |-> None, pc |-> "ready", arg |-> 0,
      output |-> <<>>, spans |-> <<>>, meta |-> None ]

\* variant: the issue fetched last is kept in the handle, not in the future
ResumeKeepingIssue(c) ==
    /\ input' = c.input
    /\ UNCHANGED issue
    /\ event' = c.event
    /\ events' = c.events
    /\ log' = c.log
    /\ result' = c.result
    /\ pc' = c.pc
    /\ arg' = c.arg
    /\ output' = c.output
    /\ spans' = c.spans
    /\ meta' = c.meta

\* the executor polls the future c
Resume(c) ==
    /\ input' = c.input
    /\ issue' = c.issue
    /\ event' = c.event
    /\ events' = c.events
    /\ log' = c.log
    /\ result' = c.result
    /\ pc' = c.pc
    /\ arg' = c.arg
    /\ output' = c.output
    /\ spans' = c.spans
    /\ meta' = c.meta

\* a further invocation arrives while the polled one awaits or has returned
PollNew ==
    /\ pc # "ready"
    /\ Len(suspended) + 1 < MaxInvocations
    /\ suspended' = Append(suspended, Context)
    /\ Resume(FreshContext)
    /\ UNCHANGED <<calls, ms, interesting, ops, text, orphan_errors>>

\* the executor turns to a suspended invocation that awaits a response; a
\* future that has returned is not polled again
PollOther ==
    /\ pc # "ready"
    /\ \E k \in 1..Len(suspended) :
          /\ suspended[k].pc \in BackendOps
          /\ suspended' = [ suspended EXCEPT ![k] = Context ]
          /\ Resume(suspended[k])
    /\ UNCHANGED <<calls, ms, interesting, ops, text, orphan_errors>>

\* the inputs and the responses of the interleaved invocations: two inputs
\* of get_issue_details and one of each other tool; one upstream error,
\* traces of at most one span, metadata without a map, at most one event
InterleavedInputs ==
    { GetIssueDetailsInput(
          Some("https://sentry.io/organizations/test-org/issues/123/"),
          None, None, None),
      GetIssueDetailsInput(None, Some("my-org"), Some("456"), Some("evt-1")),
      GetTraceDetailsInput("test-org", "trace-id"),
      SearchIssueEventsInput("test-org", "123", None, None, None) }

InterleavedResponse(r) ==
    IF ~r.ok THEN r.error = "Server error"
    ELSE CASE r.op = "get_trace" ->
                 \/ r.value = <<>>
                 \/ /\ Len(r.value) = 1
                    /\ r.value[1].children = <<>>
                    /\ r.value[1].op = Some("db")
                    /\ r.value[1].duration = 30 * Scale
                    /\ r.value[1].is_transaction
           [] r.op = "get_trace_meta" -> DOMAIN r.value.span_count_map = {}
           [] r.op = "list_events_for_issue" -> Len(r.value) <= 1
           [] OTHER -> TRUE

\* the polled invocation runs up to its next await or to its return
Poll ==
    /\ NextInvoke
    /\ input' # <<>> => input'[1] \in InterleavedInputs
    /\ \A k \in 1..Len(log') :
          log'[k].kind = "response" => InterleavedResponse(log'[k])

InitInterleaved == InitInvoke

NextInterleaved ==
    \/ Poll
    \/ PollNew
    \/ PollOther

SpecInterleaved == InitInterleaved /\ [][NextInterleaved]_vars






--------------------------------------------------------------------------
(* Properties of the selector, checked under SpecSelect *)

Selected == pc = "select_interesting_spans"

\* the node of the forest has a snapshot in the returned list
InResult(n) ==
    \E i \in 1..Len(interesting) : interesting[i].event_id = n.event_id

\* the nodes the inclusion rules admit, stated on the fields of the node
Qualifies(n) ==
    /\ n.is_transaction \/ n.errors # <<>> \/ n.duration >= 10 * Scale
    /\ ~ ( /\ ~n.is_transaction
           /\ Len(n.children) = 1
           /\ 10 * n.children[1].duration >= 9 * n.duration )

\* C1: select_interesting_spans(spans, N) returns at most N elements and the
\* returned list is sorted non-increasing by duration.
C1_AtMostNSortedDescending ==
    Selected =>
        /\ Len(interesting) <= arg
        /\ \A i, j \in 1..Len(interesting) :
              i < j => interesting[i].duration >= interesting[j].duration

\* a call that cut the list: more nodes qualify than N, and the N kept ones
\* start with two different durations
C1_Witness ==
    /\ Selected
    /\ arg >= 2
    /\ Len(interesting) = arg
    /\ Cardinality({ n \in Nodes(spans) : Qualifies(n) }) > arg
    /\ interesting[1].duration > interesting[2].duration

\* C2 as stated: every node whose is_transaction flag is true appears in the
\* result, whatever its duration and however many other spans qualify.
C2_EveryTransactionReturned ==
    Selected => \A n \in Nodes(spans) : n.is_transaction => InResult(n)

\* C2 amended: a transaction is collected whatever its duration, and it is
\* missing from the result only when truncation removed it, that is when the
\* result holds N spans that are all at least as long as the transaction.
C2_TransactionReturnedUnlessTruncated ==
    Selected =>
        \A n \in Nodes(spans) :
            n.is_transaction =>
                \/ InResult(n)
                \/ /\ Len(interesting) = arg
                   /\ \A i \in 1..Len(interesting) :
                         interesting[i].duration >= n.duration

\* a short, error-free transaction returned next to a longer span
C2_Witness ==
    /\ Selected
    /\ \E n \in Nodes(spans) :
          /\ n.is_transaction
          /\ n.errors = <<>>
          /\ n.duration < 10 * Scale
          /\ InResult(n)
          /\ \E i \in 1..Len(interesting) : interesting[i].duration > n.duration

--------------------------------------------------------------------------
\* the nodes the inclusion rules admit are no more than N
RoomForAll == Cardinality({ n \in Nodes(spans) : Qualifies(n) }) <= arg

LocalView(n) ==
    << n.is_transaction, n.errors, n.duration,
       [ k \in 1..Len(n.children) |-> n.children[k].duration ] >>

\* the parent of the node, when it has one
ParentsOf(n) ==
    { p \in Nodes(spans) :
         \E k \in 1..Len(p.children) : p.children[k].event_id = n.event_id }

\* C24: whether the selector collects a node depends only on the node's own
\* fields and on the number and durations of its direct children, not on
\* what became of its parent: a qualifying child of a suppressed parent is
\* collected, and so is a qualifying child of a parent that does not qualify.
C24_CollectedWhateverTheParent ==
    (Selected /\ RoomForAll) =>
        /\ \A n, m \in Nodes(spans) :
              LocalView(n) = LocalView(m) => (InResult(n) <=> InResult(m))
        /\ \A n \in Nodes(spans) :
              (Qualifies(n) /\ \E p \in ParentsOf(n) : ~InResult(p))
                 => InResult(n)

\* a 10 ms span with errors suppressed for its single 10 ms child: the
\* child is returned, the parent is not
C24_Witness ==
    /\ Selected
    /\ RoomForAll
    /\ \E p \in Nodes(spans) :
          /\ ~p.is_transaction /\ p.errors # <<>> /\ p.duration = 10 * Scale
          /\ Len(p.children) = 1
          /\ p.children[1].duration = 10 * Scale
          /\ ~p.children[1].is_transaction
          /\ ~InResult(p)
          /\ InResult(p.children[1])

\* C25: two returned spans of equal duration stand in the order in which
\* the pre-order traversal of the forest visits them, and when the cut to N
\* goes through spans of equal duration the ones visited first are kept.
C25_EqualDurationsInVisitOrder ==
    Selected =>
        /\ \A i, j \in 1..Len(interesting) :
              (i < j /\ interesting[i].duration = interesting[j].duration)
                 => interesting[i].event_id < interesting[j].event_id
        /\ \A n \in Nodes(spans) :
              (Qualifies(n) /\ ~InResult(n)) =>
                  \A i \in 1..Len(interesting) :
                      interesting[i].duration = n.duration
                         => interesting[i].event_id < n.event_id

\* three qualifying 10 ms roots cut to two: the first and the second stay,
\* in that order
C25_Witness ==
    /\ Selected
    /\ arg = 2
    /\ Len(spans) = 3
    /\ \A k \in 1..3 : spans[k].duration = 10 * Scale /\ spans[k].children = <<>>
    /\ Len(interesting) = 2
    /\ interesting[1].event_id = 1
    /\ interesting[2].event_id = 2

\* what C26 says of the returned list
SnapshotsOfInputNodes ==
    Selected =>
        /\ \A i \in 1..Len(interesting) :
              /\ interesting[i].children = <<>>
              /\ \E n \in Nodes(spans) :
                    interesting[i] = [ n EXCEPT !.children = <<>> ]
        /\ \A i, j \in 1..Len(interesting) :
              i # j => interesting[i].event_id # interesting[j].event_id

\* C26: every returned element has an empty children list and is otherwise
\* field for field a node of the input forest, no input node yields two
\* elements, and the call leaves the input forest as it was.
C26_ChildlessSnapshotsInputUntouched ==
    /\ []SnapshotsOfInputNodes
    /\ [][spans' = spans]_vars

\* a returned span whose node in the forest has two children
C26_Witness ==
    /\ Selected
    /\ \E n \in Nodes(spans) :
          /\ Len(n.children) = 2
          /\ \E i \in 1..Len(interesting) :
                /\ interesting[i].event_id = n.event_id
                /\ interesting[i].children = <<>>
                /\ interesting[i].duration = n.duration

--------------------------------------------------------------------------

(* Properties of the aggregator, checked under SpecOps *)

Aggregated == pc = "collect_operations"

RECURSIVE SumOver(_, _)
\* the sum of f[k][c] over the keys k of S
SumOver(S, fc) ==
    IF S = {} THEN 0
    ELSE LET k == CHOOSE x \in S : TRUE
         IN fc[1][k][fc[2]] + SumOver(S \ {k}, fc)

TotalCount == SumOver(DOMAIN ops, <<ops, 1>>)
TotalDuration == SumOver(DOMAIN ops, <<ops, 2>>)

RECURSIVE SumDurations(_)
SumDurations(S) ==
    IF S = {} THEN 0
    ELSE LET n == CHOOSE x \in S : TRUE
         IN n.duration + SumDurations(S \ {n})

Named(forest) == { n \in Nodes(forest) : n.op # <<>> }
NamedAs(forest, name) == { n \in Nodes(forest) : n.op = <<name>> }

\* C4 as stated: the sum of the counts over all buckets equals the number of
\* nodes of the forest that have a non-empty operation name.
C4_TotalCountIsNonEmptyNamed ==
    Aggregated =>
        TotalCount = Cardinality({ n \in Named(spans) : n.op[1] # "" })

\* C4 amended: the sum of the counts over all buckets equals the number of
\* nodes of the forest whose operation name is present, an empty string
\* included.
C4_TotalCountIsNamed ==
    Aggregated => TotalCount = Cardinality(Named(spans))

\* a forest with a named node, a node with an empty name and a node without
C4_Witness ==
    /\ Aggregated
    /\ \E a, b, c \in Nodes(spans) :
          a.op = <<"db">> /\ b.op = <<"">> /\ c.op = <<>>
    /\ TotalCount = 2

\* C5: the bucket of every operation name holds (number of nodes anywhere in
\* the forest with that name, sum of those nodes' own durations), and there
\* is exactly one bucket per distinct operation name encountered.
C5_BucketPerName ==
    Aggregated =>
        /\ DOMAIN ops = { n.op[1] : n \in Named(spans) }
        /\ \A name \in DOMAIN ops :
              /\ ops[name][1] = Cardinality(NamedAs(spans, name))
              /\ ops[name][2] = SumDurations(NamedAs(spans, name))

\* two nodes of one name at different depths, the parent longer than the
\* child, and a second name
C5_Witness ==
    /\ Aggregated
    /\ Cardinality(DOMAIN ops) = 2
    /\ \E p \in Nodes(spans) :
          /\ p.op = <<"db">>
          /\ p.duration = 50 * Scale
          /\ Len(p.children) = 1
          /\ p.children[1].op = <<"db">>
          /\ p.children[1].duration = 30 * Scale
    /\ ops["db"] = <<2, 80 * Scale>>

\* C6: a node with no operation name adds nothing to any bucket (its duration
\* is credited nowhere), but every descendant of it that has an operation
\* name is still counted in its bucket.
C6_UnnamedSkippedDescendantsCounted ==
    Aggregated =>
        /\ TotalDuration = SumDurations(Named(spans))
        /\ \A u \in Nodes(spans) :
              u.op = <<>> =>
                 \A d \in Named(u.children) :
                     /\ d.op[1] \in DOMAIN ops
                     /\ ops[d.op[1]][1] >=
                            Cardinality(NamedAs(u.children, d.op[1]))

\* an unnamed root of 50 ms over a named child of 30 ms: one bucket, 30 ms
C6_Witness ==
    /\ Aggregated
    /\ Len(spans) = 1
    /\ spans[1].op = <<>>
    /\ spans[1].duration = 50 * Scale
    /\ Len(spans[1].children) = 1
    /\ spans[1].children[1].op = <<"http">>
    /\ spans[1].children[1].duration = 30 * Scale
    /\ ops = [ k \in {"http"} |-> <<1, 30 * Scale>> ]

--------------------------------------------------------------------------
(* Reading rendered text *)

EndsWith(str, suffix) ==
    /\ Len(str) >= Len(suffix)
    /\ SubSeq(str, Len(str) - Len(suffix) + 1, Len(str)) = suffix

StartsWith(str, prefix) ==
    /\ Len(str) >= Len(prefix)
    /\ SubSeq(str, 1, Len(prefix)) = prefix

IsDigit(c) == \E d \in 0..9 : ToString(d) = c
DigitValue(c) == CHOOSE d \in 0..9 : ToString(d) = c

AllDigits(str) ==
    /\ Len(str) > 0
    /\ \A i \in 1..Len(str) : IsDigit(SubSeq(str, i, i))

RECURSIVE ParseNat(_)
ParseNat(str) ==
    IF Len(str) = 0 THEN 0
    ELSE 10 * ParseNat(SubSeq(str, 1, Len(str) - 1))
            + DigitValue(SubSeq(str, Len(str), Len(str)))

\* str is digits, a point and exactly two digits
IsFixed2(str) ==
    /\ Len(str) >= 4
    /\ SubSeq(str, Len(str) - 2, Len(str) - 2) = "."
    /\ AllDigits(SubSeq(str, 1, Len(str) - 3))
    /\ AllDigits(SubSeq(str, Len(str) - 1, Len(str)))

\* the number of hundredths such a string denotes
Fixed2Value(str) ==
    100 * ParseNat(SubSeq(str, 1, Len(str) - 3))
        + ParseNat(SubSeq(str, Len(str) - 1, Len(str)))

RECURSIVE LeadingSpaces(_)
LeadingSpaces(str) ==
    IF Len(str) > 0 /\ SubSeq(str, 1, 1) = " "
    THEN 1 + LeadingSpaces(SubSeq(str, 2, Len(str)))
    ELSE 0

--------------------------------------------------------------------------
(* Properties of format_duration, checked under SpecDuration *)

Formatted == pc = "format_duration"

\* C8: every value >= 1000 ms is rendered as seconds (value/1000, two
\* decimals, suffix "s") and every value < 1000 ms as milliseconds (two
\* decimals, suffix "ms"); 999.99 gives "999.99ms" and 1000.0 gives "1.00s".
C8_SecondsFromExactly1000 ==
    Formatted =>
        /\ ms >= 1000 * Scale =>
              /\ EndsWith(text, "s") /\ ~EndsWith(text, "ms")
              /\ LET number == SubSeq(text, 1, Len(text) - 1)
                 IN /\ IsFixed2(number)
                    \* the hundredth of a second nearest to ms / 1000
                    /\ 2 * (Fixed2Value(number) * 10 * Scale - ms) <= 10 * Scale
                    /\ 2 * (ms - Fixed2Value(number) * 10 * Scale) <= 10 * Scale
        /\ ms < 1000 * Scale =>
              /\ EndsWith(text, "ms")
              /\ LET number == SubSeq(text, 1, Len(text) - 2)
                 IN /\ IsFixed2(number)
                    /\ Fixed2Value(number) * Scale = ms * 100
        /\ ms * 100 = 99999 * Scale => text = "999.99ms"
        /\ ms = 1000 * Scale => text = "1.00s"

\* exactly one second, rendered as seconds
C8_Witness == Formatted /\ ms = 1000 * Scale /\ text = "1.00s"

--------------------------------------------------------------------------
(* Properties of format_span_tree, checked under SpecTree *)

TreeRendered == pc = "format_span_tree"

\* the depth of the node numbered id below the root of tree
RECURSIVE DepthOf(_, _)
DepthOf(tree, id) ==
    IF tree.event_id = id THEN 0
    ELSE LET c == CHOOSE i \in 1..Len(tree.children) :
                     \E n \in Nodes(<<tree.children[i]>>) : n.event_id = id
         IN 1 + DepthOf(tree.children[c], id)

\* event_id numbers the nodes in document order, so the k-th node of the
\* pre-order walk of a subtree is the one numbered k - 1 after its root
KthNode(tree, k) ==
    CHOOSE n \in Nodes(<<tree>>) : n.event_id = tree.event_id + k - 1

\* C9: format_span_tree emits exactly one line per node of the subtree, in
\* pre-order with children in their original order, and the line of a node at
\* depth d is indented by exactly 2*d spaces (d counted from the start depth).
C9_OneIndentedLinePerNode ==
    TreeRendered =>
        LET tree == spans[arg[1]]
            start == arg[2]
        IN /\ Len(output) = Cardinality(Nodes(<<tree>>))
           /\ \A k \in 1..Len(output) :
                 LET n == KthNode(tree, k)
                     indent == 2 * (start + DepthOf(tree, n.event_id))
                     name == IF n.op = <<>> THEN "unknown" ELSE n.op[1]
                 IN /\ LeadingSpaces(output[k]) = indent
                    /\ StartsWith(SubSeq(output[k], indent + 2, Len(output[k])),
                                  " [" \o name \o "] ")

\* a chain of three nodes with three names rendered from depth 0: three
\* lines indented by 0, 2 and 4 spaces
C9_Witness ==
    /\ TreeRendered
    /\ arg = <<1, 0>>
    /\ Len(spans[1].children) = 1
    /\ Len(spans[1].children[1].children) = 1
    /\ spans[1].op = <<"http">>
    /\ spans[1].children[1].op = <<"db">>
    /\ spans[1].children[1].children[1].op = <<"cache">>
    /\ Len(output) = 3
    /\ LeadingSpaces(output[1]) = 0
    /\ LeadingSpaces(output[2]) = 2
    /\ LeadingSpaces(output[3]) = 4

--------------------------------------------------------------------------
(* Properties of format_trace_output, checked under SpecReport *)

Reported == pc = "format_trace_output"

HasLine(line) == \E i \in 1..Len(output) : output[i] = line
LinesEqual(line) == { i \in 1..Len(output) : output[i] = line }

\* the lines listed under the Operation Breakdown heading: from the second
\* line after the heading (a blank line follows it) up to the second line
\* before the Span Tree heading (a blank line precedes it)
BreakdownEntries ==
    LET from == CHOOSE i \in LinesEqual("## Operation Breakdown") : TRUE
        to == CHOOSE i \in LinesEqual("## Span Tree") : TRUE
    IN SubSeq(output, from + 2, to - 2)

\* the lines between the opening and the closing fence
SpanTreeEntries ==
    LET from == CHOOSE i \in LinesEqual("## Span Tree") : TRUE
    IN SubSeq(output, from + 3, Len(output) - 1)

\* C7: when the metadata's span_count_map is non-empty, the Operation
\* Breakdown section lists exactly the entries of that map in descending
\* order of their value and no entry of the locally computed aggregate.
C7_ServerMapListedDescending ==
    (Reported /\ meta # <<>> /\ DOMAIN meta[1].span_count_map # {}) =>
        LET map == meta[1].span_count_map
            n == Cardinality(DOMAIN map)
        IN /\ Cardinality(LinesEqual("## Operation Breakdown")) = 1
           /\ Len(BreakdownEntries) = n
           /\ \E order \in [1..n -> DOMAIN map] :
                 /\ \A i, j \in 1..n : i < j =>
                        /\ order[i] # order[j]
                        /\ map[order[i]] >= map[order[j]]
                 /\ \A k \in 1..n :
                        BreakdownEntries[k] =
                            "- **" \o order[k] \o "**: "
                                \o ToString(map[order[k]] \div Scale)
           /\ \A i \in 1..Len(output) : ~EndsWith(output[i], " total")

\* the map {db: 200.5, http: 100}, yielded http first, over a forest whose
\* own aggregate has a db bucket: db is listed before http
C7_Witness ==
    /\ Reported
    /\ meta # <<>>
    /\ meta[1].span_count_map = [ k \in {"db", "http"} |->
                                    IF k = "db" THEN 200 * Scale + Scale \div 2
                                    ELSE 100 * Scale ]
    /\ arg.iter = <<"http", "db">>
    /\ \E s \in Nodes(spans) : s.op = <<"db">>
    /\ BreakdownEntries = << "- **db**: 200", "- **http**: 100" >>

\* what C10 says of every report on an empty span list, the breakdown aside
EmptyReportCore ==
    /\ HasLine("**Trace ID:** " \o arg.trace_id)
    /\ HasLine("**Transactions:** 0")
    /\ Cardinality(LinesEqual(Fence)) = 2
    /\ SpanTreeEntries = <<>>
    /\ \A i \in 1..Len(output) :
          /\ ~StartsWith(output[i], "**Total Duration:**")
          /\ ~StartsWith(output[i], "**Root Duration:**")

\* C10 as stated: on an empty span list the report contains the trace
\* identifier and "Transactions: 0", has no entry between the fences of the
\* Span Tree section, no duration line and no Operation Breakdown section.
C10_EmptyReportWithoutBreakdown ==
    (Reported /\ spans = <<>>) =>
        /\ EmptyReportCore
        /\ ~HasLine("## Operation Breakdown")

\* C10 amended: as stated, except that the Operation Breakdown section is
\* absent exactly when the metadata is absent or its span_count_map is empty;
\* a non-empty server map is listed although there is no span.
C10_EmptyReportBreakdownOnlyFromServerMap ==
    (Reported /\ spans = <<>>) =>
        /\ EmptyReportCore
        /\ HasLine("## Operation Breakdown")
              <=> (meta # <<>> /\ DOMAIN meta[1].span_count_map # {})
        /\ HasLine("## Operation Breakdown") =>
              Len(BreakdownEntries) = Cardinality(DOMAIN meta[1].span_count_map)

\* an empty span list reported with a server map of one entry
C10_Witness ==
    /\ Reported
    /\ spans = <<>>
    /\ meta # <<>>
    /\ DOMAIN meta[1].span_count_map = {"db"}
    /\ HasLine("**Transactions:** 0")
    /\ HasLine("## Operation Breakdown")
    /\ SpanTreeEntries = <<>>

\* C11: the transaction count shown in the report is the number of nodes of
\* the forest whose is_transaction flag is true, roots and descendants at
\* every depth alike.
C11_TransactionsCountedAtEveryDepth ==
    Reported =>
        /\ HasLine("**Transactions:** "
              \o ToString(Cardinality({ n \in Nodes(spans) : n.is_transaction })))
        /\ Cardinality({ i \in 1..Len(output) :
                            StartsWith(output[i], "**Transactions:**") }) = 1

\* a root that is no transaction over a child that is one: the count is 1
C11_Witness ==
    /\ Reported
    /\ Len(spans) = 1
    /\ ~spans[1].is_transaction
    /\ Len(spans[1].children) = 1
    /\ spans[1].children[1].is_transaction
    /\ HasLine("**Transactions:** 1")

--------------------------------------------------------------------------
(* Properties of the duration line, checked under SpecRange *)

\* the start and end values present in the forest, at every depth
ValidStarts ==
    { n.start_timestamp : n \in { x \in Nodes(spans) : x.start_timestamp > 0 } }
ValidEnds ==
    { n.end_timestamp : n \in { x \in Nodes(spans) : x.end_timestamp > 0 } }

MinOf(S) == CHOOSE x \in S : \A y \in S : x <= y
MaxOf(S) == CHOOSE x \in S : \A y \in S : x >= y

\* latest valid end minus earliest valid start, in 1/Scale ms
WallClock == (MaxOf(ValidEnds) - MinOf(ValidStarts)) * ((1000 * Scale) \div TimeScale)

HasRange == ValidStarts # {} /\ ValidEnds # {}

\* str is the rendering of d, a duration in 1/Scale ms
DurationText(str, d) ==
    IF d >= 1000 * Scale
    THEN /\ EndsWith(str, "s") /\ ~EndsWith(str, "ms")
         /\ LET number == SubSeq(str, 1, Len(str) - 1)
            IN /\ IsFixed2(number)
               /\ 2 * (Fixed2Value(number) * 10 * Scale - d) <= 10 * Scale
               /\ 2 * (d - Fixed2Value(number) * 10 * Scale) <= 10 * Scale
    ELSE /\ EndsWith(str, "ms")
         /\ LET number == SubSeq(str, 1, Len(str) - 2)
            IN /\ IsFixed2(number)
               /\ Fixed2Value(number) * Scale = d * 100

LinesStarting(prefix) ==
    { i \in 1..Len(output) : StartsWith(output[i], prefix) }

AfterPrefix(str, prefix) == SubSeq(str, Len(prefix) + 1, Len(str))

\* C12: the wall-clock total shown is (latest end - earliest start) x 1000,
\* the minimum and the maximum taken over every node at every depth with
\* the values 0.0 left out, so that a node without timing data does not
\* change it.
C12_WallClockOverValidTimestamps ==
    (Reported /\ HasRange /\ WallClock > 0) =>
        /\ Cardinality(LinesStarting("**Total Duration:** ")) = 1
        /\ \A i \in LinesStarting("**Total Duration:** ") :
              DurationText(AfterPrefix(output[i], "**Total Duration:** "),
                           WallClock)

\* a root without timing data over a child from second 1 to second 2.5:
\* the total is 1.50s although the root's start and end are 0.0
C12_Witness ==
    /\ Reported
    /\ Len(spans) = 1
    /\ spans[1].start_timestamp = 0 /\ spans[1].end_timestamp = 0
    /\ Len(spans[1].children) = 1
    /\ spans[1].children[1].start_timestamp = 1 * TimeScale
    /\ spans[1].children[1].end_timestamp = 2 * TimeScale + TimeScale \div 2
    /\ HasLine("**Total Duration:** 1.50s")

\* the report shows the first root's own duration as Root Duration and no
\* Total Duration line
ShowsRootDuration ==
    /\ Cardinality(LinesStarting("**Root Duration:** ")) = 1
    /\ \A i \in LinesStarting("**Root Duration:** ") :
          DurationText(AfterPrefix(output[i], "**Root Duration:** "),
                       spans[1].duration)
    /\ LinesStarting("**Total Duration:**") = {}

\* C13 as stated: when no node has both a valid start and a valid end, or
\* when the computed range is not positive, the report of a forest with a
\* root shows the root's own duration as Root Duration and no Total
\* Duration line.
C13_RootDurationWithoutTimedNode ==
    (/\ Reported
     /\ spans # <<>>
     /\ \/ ~\E n \in Nodes(spans) : n.start_timestamp > 0 /\ n.end_timestamp > 0
        \/ ~(HasRange /\ WallClock > 0)) =>
        ShowsRootDuration

\* C13 amended: the report of a forest with a root shows the first root's
\* own duration as Root Duration and no Total Duration line exactly when
\* the forest has no valid start, or no valid end, or its latest valid end
\* is not after its earliest valid start; a valid start and a later valid
\* end found on different nodes make the report show Total Duration.
C13_RootDurationWithoutPositiveRange ==
    (Reported /\ spans # <<>>) =>
        IF HasRange /\ WallClock > 0
        THEN /\ Cardinality(LinesStarting("**Total Duration:** ")) = 1
             /\ LinesStarting("**Root Duration:**") = {}
        ELSE ShowsRootDuration

\* a root from second 2 to second 2 over a child without timing data: the
\* range is zero and the root's 30 ms are shown, not the child's 50 ms
C13_Witness ==
    /\ Reported
    /\ Len(spans) = 1
    /\ spans[1].start_timestamp = 2 * TimeScale
    /\ spans[1].end_timestamp = 2 * TimeScale
    /\ Len(spans[1].children) = 1
    /\ spans[1].children[1].start_timestamp = 0
    /\ spans[1].children[1].end_timestamp = 0
    /\ spans[1].children[1].duration = 50 * Scale
    /\ HasLine("**Root Duration:** 30.00ms")
    /\ LinesStarting("**Total Duration:**") = {}

--------------------------------------------------------------------------
(* Properties of the orphan error list, checked under SpecOrphans *)

OrphansRendered == pc = "format_orphan_errors"

\* the lines after the Orphan Errors heading and the blank line under it
OrphanEntries ==
    LET from == CHOOSE i \in LinesEqual("## Orphan Errors") : TRUE
    IN SubSeq(output, from + 2, Len(output))

--------------------------------------------------------------------------
(* Properties of the tool invocations, checked under SpecInvoke *)

Invoked(tool) == input # <<>> /\ input[1].tool = tool

Returned == pc = "returned"

RequestsOf(op) ==
    { k \in 1..Len(log) : log[k].kind = "request" /\ log[k].op = op }

FailuresOf(op) ==
    { k \in 1..Len(log) : log[k].kind = "response" /\ log[k].op = op /\ ~log[k].ok }

\* the input of get_issue_details names no issue: its URL does not match
\* the pattern or, without a URL, the organization or the issue id is missing
InvalidIssueInput ==
    IF input[1].issue_url # <<>>
    THEN parse_issue_url(input[1].issue_url[1]) = <<>>
    ELSE input[1].organization_slug = <<>> \/ input[1].issue_id = <<>>

\* C15: an invocation of get_issue_details with a URL that does not match
\* the issue pattern, or with no URL and no organization or no issue id,
\* returns an invalid-parameters error and calls none of get_issue,
\* get_event and get_latest_event.
C15_InvalidInputRejectedBeforeAnyCall ==
    (Invoked("get_issue_details") /\ InvalidIssueInput) =>
        /\ Returned
        /\ result # <<>>
        /\ result[1].is_error
        /\ result[1].code = "invalid_params"
        /\ calls["get_issue"] = 0
        /\ calls["get_event"] = 0
        /\ calls["get_latest_event"] = 0
        /\ log = <<>>

\* a URL outside the pattern, given together with an organization, an
\* issue id and an event id: rejected without a call
C15_Witness ==
    /\ Invoked("get_issue_details")
    /\ input[1].issue_url = << "https://invalid-url.com/not-sentry" >>
    /\ input[1].organization_slug # <<>>
    /\ input[1].issue_id # <<>>
    /\ input[1].event_id # <<>>
    /\ Returned
    /\ result[1].code = "invalid_params"
    /\ result[1].message = "Invalid issue URL format"
    /\ \A op \in DOMAIN calls : calls[op] = 0

\* the operation names of the spans the invocation got
LocalNames == { n.op[1] : n \in { x \in Nodes(spans) : x.op # <<>> } }

\* C16: when get_trace succeeds and get_trace_meta fails, the invocation of
\* get_trace_details still succeeds, and its report is the one made without
\* metadata: no Total Spans, Errors or Performance Issues line, and the
\* breakdown that of the local aggregate.
C16_MetaFailureStillSucceeds ==
    (Invoked("get_trace_details") /\ FailuresOf("get_trace_meta") # {}) =>
        /\ Returned
        /\ result # <<>>
        /\ ~result[1].is_error
        /\ result[1].content = output
        /\ LinesStarting("**Total Spans:**") = {}
        /\ LinesStarting("**Errors:**") = {}
        /\ LinesStarting("**Performance Issues:**") = {}
        /\ HasLine("**Trace ID:** " \o input[1].trace_id)
        /\ HasLine("## Operation Breakdown") <=> LocalNames # {}
        /\ LocalNames # {} =>
              /\ Len(BreakdownEntries) = Cardinality(LocalNames)
              /\ \A name \in LocalNames :
                    \E k \in 1..Len(BreakdownEntries) :
                       /\ StartsWith(BreakdownEntries[k],
                             "- **" \o name \o "**: "
                                \o ToString(Cardinality({ n \in Nodes(spans) :
                                                            n.op = << name >> }))
                                \o " occurrences, ")
                       /\ EndsWith(BreakdownEntries[k], " total")

\* get_trace answered with a single db span, get_trace_meta failed with
\* "Server error": the report lists db with one occurrence
C16_Witness ==
    /\ Invoked("get_trace_details")
    /\ Returned
    /\ Len(log) = 4
    /\ log[2].op = "get_trace" /\ log[2].ok
    /\ log[4].op = "get_trace_meta" /\ ~log[4].ok /\ log[4].error = "Server error"
    /\ Len(spans) = 1 /\ spans[1].op = << "db" >> /\ spans[1].duration = 30 * Scale
    /\ ~result[1].is_error
    /\ BreakdownEntries = << "- **db**: 1 occurrences, 30.00ms total" >>

\* the operations whose failure the invocation cannot go on without
RequiredOps ==
    { "get_issue", "get_event", "get_latest_event", "get_trace",
      "list_events_for_issue" }

\* C17: once get_issue, get_event, get_latest_event, get_trace or
\* list_events_for_issue has failed, the invocation has returned an error
\* with the upstream message, has no success result and makes no further
\* call: no get_trace_meta after a failed get_trace, no event fetch after a
\* failed get_issue.
C17_RequiredFailureEndsInvocation ==
    \A k \in 1..Len(log) :
        (log[k].kind = "response" /\ ~log[k].ok /\ log[k].op \in RequiredOps) =>
            /\ k = Len(log)
            /\ Returned
            /\ result # <<>>
            /\ result[1].is_error
            /\ result[1].message = log[k].error
            /\ result[1].content = <<>>
            /\ log[k].op = "get_trace" => calls["get_trace_meta"] = 0
            /\ log[k].op = "get_issue" =>
                  calls["get_event"] = 0 /\ calls["get_latest_event"] = 0

\* get_issue answered and get_event failed with "API rate limit exceeded":
\* the invocation returned that message after two calls
C17_Witness ==
    /\ Invoked("get_issue_details")
    /\ Returned
    /\ Len(log) = 4
    /\ log[2].op = "get_issue" /\ log[2].ok
    /\ log[4].op = "get_event" /\ ~log[4].ok
    /\ result[1].is_error
    /\ result[1].code = "internal_error"
    /\ result[1].message = "API rate limit exceeded"
    /\ calls["get_latest_event"] = 0

\* C18: a successful invocation of get_issue_details has called get_issue
\* exactly once and then fetched exactly one event: get_event once and
\* get_latest_event never when an event id was given, get_latest_event once
\* and get_event never otherwise, for a URL as for an explicit organization
\* and issue id.
C18_OneIssueThenOneEvent ==
    (Invoked("get_issue_details") /\ Returned /\ ~result[1].is_error) =>
        /\ calls["get_issue"] = 1
        /\ calls["get_event"] = IF input[1].event_id # <<>> THEN 1 ELSE 0
        /\ calls["get_latest_event"] = IF input[1].event_id # <<>> THEN 0 ELSE 1
        /\ Len(log) = 4
        /\ log[1].kind = "request" /\ log[1].op = "get_issue"
        /\ log[3].kind = "request"
        /\ log[3].op = IF input[1].event_id # <<>> THEN "get_event"
                       ELSE "get_latest_event"
        /\ \A op \in { "get_trace", "get_trace_meta", "list_events_for_issue" } :
              calls[op] = 0

\* the URL of test-org's issue 123 with an event id: get_issue once, then
\* get_event once for that event
C18_Witness ==
    /\ Invoked("get_issue_details")
    /\ input[1].issue_url =
          << "https://sentry.io/organizations/test-org/issues/123/" >>
    /\ input[1].event_id = << "evt-1" >>
    /\ Returned
    /\ ~result[1].is_error
    /\ calls["get_issue"] = 1 /\ calls["get_event"] = 1
    /\ calls["get_latest_event"] = 0
    /\ log[1].args = << "test-org", "123" >>
    /\ log[3].args = << "test-org", "123", "evt-1" >>
    /\ HasLine("# Issue Details")

\* C19: within one invocation every backend operation is called at most
\* once, whether it succeeds or fails, and the calls are sequential: every
\* request is answered before the next is sent, get_issue before the event
\* fetch and get_trace before get_trace_meta; a failed request is never
\* sent again.
C19_EachOperationOnceInSequence ==
    /\ \A op \in BackendOps :
          /\ calls[op] <= 1
          /\ Cardinality(RequestsOf(op)) = calls[op]
    /\ \A k \in 1..Len(log) :
          IF k % 2 = 1
          THEN log[k].kind = "request"
          ELSE log[k].kind = "response" /\ log[k].op = log[k - 1].op
    /\ \A k \in RequestsOf("get_event") \cup RequestsOf("get_latest_event") :
          k > 2 /\ log[k - 1].kind = "response" /\ log[k - 1].op = "get_issue"
    /\ \A k \in RequestsOf("get_trace_meta") :
          k > 2 /\ log[k - 1].kind = "response" /\ log[k - 1].op = "get_trace"
    /\ \A op \in BackendOps : FailuresOf(op) # {} => Cardinality(RequestsOf(op)) = 1

\* a trace invocation that made both calls: get_trace asked and answered,
\* then get_trace_meta asked and answered
C19_Witness ==
    /\ Invoked("get_trace_details")
    /\ Returned
    /\ Len(log) = 4
    /\ log[1].kind = "request" /\ log[1].op = "get_trace"
    /\ log[2].kind = "response" /\ log[2].op = "get_trace"
    /\ log[3].kind = "request" /\ log[3].op = "get_trace_meta"
    /\ log[4].kind = "response" /\ log[4].op = "get_trace_meta" /\ log[4].ok
    /\ calls["get_trace"] = 1 /\ calls["get_trace_meta"] = 1

\* C20: an invocation of search_issue_events sends exactly one
\* list_events_for_issue request; its limit is the smaller of the requested
\* limit and 100, or 10 when none was requested, and so never above 100; its
\* sort is the requested one or "newest"; its query is the requested one.
C20_OneRequestWithCappedLimit ==
    Invoked("search_issue_events") =>
        /\ calls["list_events_for_issue"] = 1
        /\ Cardinality(RequestsOf("list_events_for_issue")) = 1
        /\ \A op \in BackendOps \ { "list_events_for_issue" } : calls[op] = 0
        /\ LET in == input[1]
               sent == log[1].args[3]
           IN /\ log[1].op = "list_events_for_issue"
              /\ log[1].args[1] = in.organization_slug
              /\ log[1].args[2] = in.issue_id
              /\ sent.limit # <<>>
              /\ sent.limit[1] <= 100
              /\ sent.limit[1] = IF in.limit = <<>> THEN 10
                                 ELSE IF in.limit[1] < 100 THEN in.limit[1]
                                 ELSE 100
              /\ sent.sort = IF in.sort = <<>> THEN << "newest" >> ELSE in.sort
              /\ sent.query = in.query

\* a limit of 1000 with no sort and a query: the request carries 100,
\* "newest" and the query, and the search answered
C20_Witness ==
    /\ Invoked("search_issue_events")
    /\ input[1].limit = << 1000 >>
    /\ input[1].sort = <<>>
    /\ input[1].query = << "server_name:web-1" >>
    /\ Returned
    /\ ~result[1].is_error
    /\ log[1].args[3] = EventsQuery(<< "server_name:web-1" >>, << 100 >>,
                                    << "newest" >>)
    /\ calls["list_events_for_issue"] = 1

--------------------------------------------------------------------------
(* Properties of format_events_output, checked under SpecInvoke *)

\* the search answered and its report was returned
EventsReported ==
    Invoked("search_issue_events") /\ Returned /\ ~result[1].is_error

IsEventHeading(line) == StartsWith(line, "## Event ")

EventHeadings == SelectSeq(output, IsEventHeading)

\* C22: format_events_output reports a Found count equal to the number of
\* events, emits one "Event k" block per event, numbered 1..n in the order
\* of the input, and emits "No events found matching the query." exactly
\* when there is no event.
C22_FoundCountAndNumberedBlocks ==
    EventsReported =>
        /\ HasLine("**Found:** " \o ToString(Len(events)) \o " events")
        /\ Cardinality(LinesStarting("**Found:**")) = 1
        /\ Len(EventHeadings) = Len(events)
        /\ \A k \in 1..Len(events) :
              EventHeadings[k] =
                  "## Event " \o ToString(k) \o " - " \o events[k].event_id
        /\ HasLine("No events found matching the query.") <=> events = <<>>

\* evt-2 before evt-1: two blocks, "Event 1 - evt-2" then "Event 2 - evt-1"
C22_Witness ==
    /\ EventsReported
    /\ Len(events) = 2
    /\ events[1].event_id = "evt-2" /\ events[2].event_id = "evt-1"
    /\ HasLine("**Found:** 2 events")
    /\ EventHeadings = << "## Event 1 - evt-2", "## Event 2 - evt-1" >>
    /\ ~HasLine("No events found matching the query.")

--------------------------------------------------------------------------
(* Further properties of format_trace_output, checked under SpecReport *)

\* the line of the breakdown for a bucket of the local aggregate
IsBucketLine(line, name, count, total) ==
    LET head == "- **" \o name \o "**: " \o ToString(count) \o " occurrences, "
    IN /\ StartsWith(line, head)
       /\ EndsWith(line, " total")
       /\ Len(line) > Len(head) + 6
       /\ DurationText(SubSeq(line, Len(head) + 1, Len(line) - 6), total)

\* C27: when the metadata is absent or its operation map is empty, the
\* Operation Breakdown section lists exactly the buckets of the aggregate
\* computed over all roots, by descending total duration, each with its
\* count of occurrences and its total; without a bucket there is no section.
C27_LocalBucketsListedDescending ==
    (Reported /\ (meta = <<>> \/ DOMAIN meta[1].span_count_map = {})) =>
        LET names == { n.op[1] : n \in Named(spans) }
            n == Cardinality(names)
        IN /\ HasLine("## Operation Breakdown") <=> names # {}
           /\ names # {} =>
                 /\ Cardinality(LinesEqual("## Operation Breakdown")) = 1
                 /\ Len(BreakdownEntries) = n
                 /\ \E order \in [1..n -> names] :
                       /\ \A i, j \in 1..n : i < j =>
                              /\ order[i] # order[j]
                              /\ SumDurations(NamedAs(spans, order[i]))
                                    >= SumDurations(NamedAs(spans, order[j]))
                       /\ \A k \in 1..n :
                              IsBucketLine(BreakdownEntries[k], order[k],
                                  Cardinality(NamedAs(spans, order[k])),
                                  SumDurations(NamedAs(spans, order[k])))

\* metadata with an empty map over the roots db (30 ms) and http (50 ms),
\* the map yielding db first: http is listed before db
C27_Witness ==
    /\ Reported
    /\ meta # <<>>
    /\ DOMAIN meta[1].span_count_map = {}
    /\ Len(spans) = 2
    /\ spans[1].op = << "db" >> /\ spans[1].duration = 30 * Scale
    /\ spans[2].op = << "http" >> /\ spans[2].duration = 50 * Scale
    /\ arg.iter = << "db", "http" >>
    /\ BreakdownEntries = << "- **http**: 1 occurrences, 50.00ms total",
                             "- **db**: 1 occurrences, 30.00ms total" >>

--------------------------------------------------------------------------
(* Properties of the Span Tree section, checked under SpecWide *)

\* the nodes of the input the inclusion rules admit
QualifyingNodes == { n \in Nodes(spans) : Qualifies(n) }

\* the place of a qualifying node among the qualifying nodes ordered by
\* duration, longest first, nodes of equal duration in document order
RankOf(n) ==
    1 + Cardinality({ x \in QualifyingNodes :
                        \/ x.duration > n.duration
                        \/ x.duration = n.duration /\ x.event_id < n.event_id })

\* line is the Span Tree line of node n, without indentation
IsLineOf(line, n) ==
    LET name == IF n.op = <<>> THEN "unknown" ELSE n.op[1]
        prefix == (IF n.errors # <<>> THEN "x" ELSE "v")
                     \o " [" \o name \o "] " \o n.description[1] \o " ("
        suffix == ") " \o n.project_slug
                     \o (IF n.is_transaction THEN " [tx]" ELSE "")
    IN /\ Len(line) > Len(prefix) + Len(suffix)
       /\ StartsWith(line, prefix)
       /\ EndsWith(line, suffix)
       /\ DurationText(SubSeq(line, Len(prefix) + 1, Len(line) - Len(suffix)),
                       n.duration)

\* C28: the Span Tree section holds exactly one line per span selected with
\* maximum 20 (the 20 longest qualifying nodes, or all of them when fewer
\* qualify), so never more than 20 lines; every line has zero indentation
\* whatever the depth of the node, and the lines are in non-increasing
\* duration order, not in tree order.
C28_OneFlatLinePerSelectedSpan ==
    Reported =>
        /\ Cardinality(LinesEqual("## Span Tree")) = 1
        /\ Len(SpanTreeEntries) <= 20
        /\ Len(SpanTreeEntries) = Min(20, Cardinality(QualifyingNodes))
        /\ \A k \in 1..Len(SpanTreeEntries) :
              LeadingSpaces(SpanTreeEntries[k]) = 0
        /\ \A n \in QualifyingNodes :
              RankOf(n) <= 20 => IsLineOf(SpanTreeEntries[RankOf(n)], n)
        /\ \A a, b \in QualifyingNodes :
              (RankOf(a) < RankOf(b) /\ RankOf(b) <= 20) =>
                 a.duration >= b.duration

\* a root with 21 children, all 22 qualifying and growing in duration with
\* the document order: 20 lines, the first one the line of the last child
\* (32 ms, depth 1), and neither the root nor the first child is listed
C28_Witness ==
    /\ Reported
    /\ Len(spans) = 1
    /\ Len(spans[1].children) = 21
    /\ Cardinality(QualifyingNodes) = 22
    /\ spans[1].children[21].duration > spans[1].duration
    /\ Len(SpanTreeEntries) = 20
    /\ IsLineOf(SpanTreeEntries[1], spans[1].children[21])
    /\ LeadingSpaces(SpanTreeEntries[1]) = 0
    /\ \A k \in 1..20 : ~IsLineOf(SpanTreeEntries[k], spans[1])

--------------------------------------------------------------------------
(* Properties of the duration line, checked under SpecReport *)

TotalDurationLines == LinesStarting("**Total Duration:**")
RootDurationLines == LinesStarting("**Root Duration:**")

\* C29: the report of a non-empty forest, whatever the metadata, contains
\* exactly one duration line, Total Duration or Root Duration and never
\* both; a Root Duration line shows the duration of the first root of the
\* list, however many roots there are; the report of an empty forest
\* contains neither line.
C29_OneDurationLineFirstRoot ==
    Reported =>
        IF spans = <<>>
        THEN TotalDurationLines = {} /\ RootDurationLines = {}
        ELSE /\ Cardinality(TotalDurationLines \cup RootDurationLines) = 1
             /\ TotalDurationLines = {} \/ RootDurationLines = {}
             /\ \A i \in RootDurationLines :
                   DurationText(AfterPrefix(output[i], "**Root Duration:** "),
                                spans[1].duration)

\* two roots without timing data, of 30 ms and of 50 ms, reported with
\* metadata: the one duration line is the Root Duration of 30 ms
C29_Witness ==
    /\ Reported
    /\ meta # <<>>
    /\ Len(spans) = 2
    /\ spans[1].duration = 30 * Scale
    /\ spans[2].duration = 50 * Scale
    /\ Cardinality(RootDurationLines) = 1
    /\ HasLine("**Root Duration:** 30.00ms")
    /\ TotalDurationLines = {}

--------------------------------------------------------------------------
(* Precedence of the issue URL, checked under SpecInvoke *)

\* the organization and the issue id written in the URLs of IssueUrls that
\* name an issue
NamedByUrl ==
    [ u \in { "https://sentry.io/organizations/test-org/issues/123/",
              "http://sentry.example.com/organizations/acme/issues/PROJ-9?referrer=x" } |->
        IF u = "https://sentry.io/organizations/test-org/issues/123/"
        THEN << "test-org", "123" >>
        ELSE << "acme", "PROJ-9" >> ]

IssueRequests ==
    RequestsOf("get_issue") \cup RequestsOf("get_event")
        \cup RequestsOf("get_latest_event")

\* C30: in an invocation of get_issue_details whose input has an issue_url,
\* every backend call carries the organization and the issue id parsed from
\* the URL, whatever the explicit organization_slug and issue_id are; when
\* the URL does not parse, the invocation fails with an invalid-parameters
\* error even if an explicit organization and issue id were supplied too.
C30_IssueUrlTakesPrecedence ==
    (Invoked("get_issue_details") /\ input[1].issue_url # <<>>) =>
        LET url == input[1].issue_url[1]
        IN IF url \in DOMAIN NamedByUrl
           THEN /\ IssueRequests # {}
                /\ \A k \in IssueRequests :
                      SubSeq(log[k].args, 1, 2) = NamedByUrl[url]
           ELSE /\ IssueRequests = {}
                /\ Returned
                /\ result # <<>>
                /\ result[1].is_error
                /\ result[1].code = "invalid_params"

\* the URL of issue PROJ-9 of acme given together with my-org and 456: the
\* issue and then its latest event are asked for as acme / PROJ-9
C30_Witness ==
    /\ Invoked("get_issue_details")
    /\ input[1].issue_url =
          << "http://sentry.example.com/organizations/acme/issues/PROJ-9?referrer=x" >>
    /\ input[1].organization_slug = << "my-org" >>
    /\ input[1].issue_id = << "456" >>
    /\ Returned
    /\ ~result[1].is_error
    /\ Cardinality(IssueRequests) = 2
    /\ \A k \in IssueRequests : log[k].args = << "acme", "PROJ-9" >>

--------------------------------------------------------------------------
(* Properties of interleaved invocations, checked under SpecInterleaved *)

\* every invocation on the handle, the polled one first
Invocations == << Context >> \o suspended

IsResponse(entry) == entry.kind = "response"

\* an invocation that has returned holds a result it returns when it runs
\* alone on the responses it received
ReturnsAsAlone ==
    \A k \in 1..Len(Invocations) :
       LET c == Invocations[k]
       IN c.pc = "returned" =>
             /\ c.result # <<>>
             /\ c.result[1] \in run_alone(c.input[1], SelectSeq(c.log, IsResponse))

\* a step either leaves every invocation that is not polled as it is, or
\* is a turn of the executor that changes the state of no invocation
SameInvocation(a, b) ==
    /\ a.pc = b.pc
    /\ a.input = b.input
    /\ a.log = b.log
    /\ a.issue = b.issue
    /\ a.event = b.event
    /\ a.events = b.events
    /\ a.result = b.result
    /\ a.output = b.output
    /\ a.spans = b.spans
    /\ a.meta = b.meta
    /\ a.arg = b.arg

OthersUntouched ==
    \/ \A k \in 1..Len(suspended) :
          /\ k <= Len(suspended')
          /\ SameInvocation(suspended'[k], suspended[k])
    \/ \A k \in 1..Len(Invocations') :
          \/ \E j \in 1..Len(Invocations) :
                SameInvocation(Invocations'[k], Invocations[j])
          \/ SameInvocation(Invocations'[k], FreshContext)

\* C21: invocations interleaved on one handle are independent: each returns
\* the result it returns when run alone on the responses it received, and
\* the step of one invocation reads and writes no state of another.
C21_InterleavedInvocationsIndependent ==
    []ReturnsAsAlone /\ [][OthersUntouched]_vars

\* get_issue_details for issue 123 has returned its report while a
\* get_issue_details for issue 456 of my-org, which has received the other
\* issue, awaits its event
C21_Witness ==
    /\ Len(suspended) = 1
    /\ pc = "returned"
    /\ input[1].tool = "get_issue_details"
    /\ input[1].issue_url # <<>>
    /\ issue # <<>>
    /\ issue[1].id = "123"
    /\ ~result[1].is_error
    /\ suspended[1].pc = "get_event"
    /\ suspended[1].input[1].organization_slug = << "my-org" >>
    /\ suspended[1].issue[1].id = "456"
    /\ Len(suspended[1].log) = 3

=============================================================================
